---- MODULE Spec2Model ----
(***************************************************************************)
(* Operation lifecycle reconciliation and health-gated abort controller.   *)
(*                                                                         *)
(* The state machines of this module:                                      *)
(*   SpecReconcile  the manager-based OperationReconciler.Reconcile working*)
(*                  against the status oracle and the Operation CR store;  *)
(*   SpecConcurrent two Reconcile runs that overlap;                       *)
(*   SpecCleanup    Reconcile next to the polling CleanupOrphanedCRs;      *)
(*   SpecPolling    the polling reconciler's syncOperations;               *)
(*   SpecPollLoop   the polling reconciler's Start, Stop and its           *)
(*                  monitoringLoop goroutines with syncWithRetry;          *)
(*   SpecClassify   the oracle adapter's type classification;              *)
(*   SpecAbort      the Azure client's AbortClusterOperation;              *)
(*   SpecCollector  the metric collector's updateMetricsConfigMap;         *)
(*   SpecHealth     the metric collector's CollectServiceHealth;           *)
(*   SpecNames      the two generateOperationName functions;               *)
(*   SpecOracle     the status oracle adapter;                             *)
(*   SpecMonitor    the health controller's informer handlers and the      *)
(*                  per-operation monitorOperation goroutines (with        *)
(*                  fairness: SpecMonitorLive, SpecMonitorSignals, and     *)
(*                  SpecMonitorHung where the abort call may not return);  *)
(*   SpecEvaluate   the threshold evaluation on its own.                   *)
(* Strings the code transforms (names) are sequences of one-character      *)
(* strings, so that ToLower / ReplaceAll act character by character.       *)
(***************************************************************************)
EXTENDS Integers, Sequences, FiniteSets, TLC

VARIABLES
    \* ---- reconciler side ----
    reconciler,         \* the OperationReconciler's fields (ClusterName, ResourceGroup)
    oracle,             \* what GetClusterOperationStatus returns right now
    store,              \* the Operation CRs in the record store (namespace "default")
    last,               \* the last Reconcile run: its inputs, its path, its result
    cluster,            \* the managed cluster as the AKS API returns it
    \* ---- health-monitor side ----
    operationMonitors,  \* map: CR name -> stop channel
    closed,             \* the stop channels that have been closed
    metricsUpdated,     \* number of signals in the buffered channel (capacity 1)
    mon,                \* the monitorOperation goroutines, in spawn order
    snapshot,           \* the metrics-store ConfigMap (current_metrics.json, parsed)
    thresholds,         \* the metric-thresholds ConfigMap (thresholds.json, parsed)
    cmEvents,           \* metrics-store updates written but not yet delivered to UpdateFunc
    sent,               \* number of metrics-store updates written so far
    abortLog,           \* the calls made to AbortClusterOperation, in order, each
                        \* with the evaluation (its number, its violations) behind it
    panicked,           \* "no", or the panic that has ended the process
    burst,              \* update signals UpdateFunc has delivered since a monitor
                        \* last received one
    lastEvent,          \* the last Operation CR callback (AddFunc, DeleteFunc) and
                        \* whether its name had a registered monitor when it ran
    \* ---- the threshold evaluator on its own ----
    evaluated,          \* the evaluations made of the current inputs: how many,
                        \* the last result and the one before it
    \* ---- the name generators on their own ----
    generated,          \* the names generated for the current inputs: how many
                        \* times, the last pair of names and the pair before it
    \* ---- Reconcile runs in flight (the manager's worker and the
    \*      StartPolling goroutine both call Reconcile) ----
    runs,               \* each run's position, what it has read and its outcome
    \* ---- the polling reconciler's lifecycle ----
    poll,               \* isRunning, stopCh, the context, the monitoringLoop
                        \* goroutines and the last Start/Stop call
    \* ---- the Azure client's abort call on its own ----
    azure,              \* the last AbortClusterOperation call: what Azure answered
                        \* and what the call did and returned
    \* ---- the metric collector ----
    metricsCM,          \* the metrics-store ConfigMap as the collector writes it
    health              \* the last CollectServiceHealth call: its inputs and result

auxVars == <<azure, metricsCM, health>>
recVars == <<reconciler, oracle, store, last, cluster, generated, runs, poll, auxVars>>
monVars == <<operationMonitors, closed, metricsUpdated, mon, snapshot, thresholds,
             cmEvents, sent, abortLog, panicked, lastEvent, burst>>
evalVars == <<evaluated>>
vars == <<reconciler, oracle, store, last, cluster, operationMonitors, closed, metricsUpdated,
          mon, snapshot, thresholds, cmEvents, sent, abortLog, panicked, lastEvent,
          burst, evaluated, generated, runs, poll, azure, metricsCM, health>>

Nil == "nil"
NoPanic == "no"

(***************************************************************************)
(* Strings                                                                 *)
(***************************************************************************)
UpperChars == <<"A","B","C","D","E","F","G","H","I","J","K","L","M",
                "N","O","P","Q","R","S","T","U","V","W","X","Y","Z">>
LowerChars == <<"a","b","c","d","e","f","g","h","i","j","k","l","m",
                "n","o","p","q","r","s","t","u","v","w","x","y","z">>

ToLowerChar(c) ==
    IF \E i \in DOMAIN UpperChars : UpperChars[i] = c
    THEN LowerChars[CHOOSE i \in DOMAIN UpperChars : UpperChars[i] = c]
    ELSE c

\* strings.ToLower
ToLower(s) == [i \in DOMAIN s |-> ToLowerChar(s[i])]

\* strings.ReplaceAll with one-character old and new
ReplaceAll(s, old, new) == [i \in DOMAIN s |-> IF s[i] = old THEN new ELSE s[i]]

Empty == <<>>
StrUpdating == <<"U","p","d","a","t","i","n","g">>
StrSucceeded == <<"S","u","c","c","e","e","d","e","d">>
StrDefault == <<"d","e","f","a","u","l","t">>
StrPhaseRunning == <<"R","u","n","n","i","n","g">>

(***************************************************************************)
(* Inputs of the reconciler                                                *)
(***************************************************************************)
\* The reconcilers the program may be constructed with.
Reconcilers ==
    { [ClusterName |-> <<"t","-","c">>, ResourceGroup |-> <<"r","g">>],
      [ClusterName |-> <<"M","y",".","C","_","1">>, ResourceGroup |-> <<"r","g">>] }

OperationTypes == {Empty, StrUpdating}
Statuses == {StrUpdating, StrSucceeded}

\* azure.OperationStatus as the reconciler reads it
OperationStatusSet ==
    [InProgress : BOOLEAN, OperationType : OperationTypes, Status : Statuses]

\* GetClusterOperationStatus returns (state, nil) or (nil, err)
OracleResults ==
    [err : {FALSE}, state : OperationStatusSet] \cup {[err |-> TRUE, state |-> Nil]}

NoFaults == [get |-> FALSE, create |-> FALSE, list |-> FALSE, del |-> {}]

\* What the record store does to the calls of one Reconcile run: a call fails
\* with an error other than NotFound when its flag is set (del: the names
\* whose Delete fails).  One kind of call fails in a run.
StoreFaults(st) ==
    {NoFaults, [NoFaults EXCEPT !.get = TRUE], [NoFaults EXCEPT !.create = TRUE],
     [NoFaults EXCEPT !.list = TRUE]}
    \cup {[NoFaults EXCEPT !.del = D] : D \in SUBSET {cr.name : cr \in st} \ {{}}}

RequeueInterval == 30

\* The ctrl.Request values a run may be handed.
Requests ==
    { [Name |-> <<"o","p","-","t","-","c","-","u","p","d","a","t","i","n","g">>,
       Namespace |-> StrDefault],
      [Name |-> <<"t","e","s","t","-","o","p">>,
       Namespace |-> <<"t","e","s","t","-","n","s">>] }

(***************************************************************************)
(* The record store (controller-runtime client) as Reconcile uses it       *)
(***************************************************************************)
Names(st) == {cr.name : cr \in st}

\* r.Get(ctx, {Name, Namespace: "default"}, existing): "nil", "NotFound" or "error"
StoreGet(st, name, fault) ==
    IF fault THEN "error"
    ELSE IF \E cr \in st : cr.name = name /\ cr.namespace = StrDefault THEN "nil"
    ELSE "NotFound"

\* r.Create(ctx, cr): the store refuses a second object of the same name
StoreCreate(st, cr, fault) ==
    IF fault THEN [err |-> "error", store |-> st]
    ELSE IF cr.name \in Names(st) THEN [err |-> "AlreadyExists", store |-> st]
    ELSE [err |-> "nil", store |-> st \cup {cr}]

\* r.Delete(ctx, obj)
StoreDelete(st, name, fault) ==
    IF fault THEN [err |-> "error", store |-> st]
    ELSE IF name \notin Names(st) THEN [err |-> "NotFound", store |-> st]
    ELSE [err |-> "nil", store |-> {cr \in st : cr.name # name}]

(***************************************************************************)
(* OperationReconciler (manager-based)                                     *)
(***************************************************************************)
\* fmt.Sprintf("op-%s-%s", a, b)
OpNameFormat(a, b) == <<"o","p","-">> \o a \o <<"-">> \o b

generateOperationName_lower_missing(r, state) ==
    LET operationName ==
            IF state.OperationType # Empty
            THEN OpNameFormat(r.ClusterName, state.OperationType)
            ELSE OpNameFormat(r.ClusterName, state.Status)
    IN ReplaceAll(ReplaceAll(ReplaceAll(operationName, "_", "-"), " ", "-"), ".", "-")

generateOperationName(r, state) ==
    LET clusterName == ToLower(r.ClusterName)
        operationName ==
            IF state.OperationType # Empty
            THEN OpNameFormat(clusterName, ToLower(state.OperationType))
            ELSE OpNameFormat(clusterName, ToLower(state.Status))
        replaced ==
            ReplaceAll(ReplaceAll(ReplaceAll(operationName, "_", "-"), " ", "-"), ".", "-")
    IN ToLower(replaced)

\* fmt.Sprintf("azure-op-%s-%s", a, b)
AzureOpNameFormat(a, b) == <<"a","z","u","r","e","-","o","p","-">> \o a \o <<"-">> \o b

\* the length limit of a Kubernetes object name
NameLimit == 63

\* generateOperationName of the polling reconciler
generateOperationNamePolling(r, state) ==
    LET cluster0 == ReplaceAll(ReplaceAll(ToLower(r.ClusterName), ".", "-"), "_", "-")
        opType == ReplaceAll(ReplaceAll(ToLower(state.Type), ".", "-"), "_", "-")
        name == AzureOpNameFormat(cluster0, opType)
    IN IF Len(name) > NameLimit THEN SubSeq(name, 1, NameLimit) ELSE name

createOperationCR_status_from_type(r, name, state) ==
    [ name |-> name,
      namespace |-> StrDefault,
      labels |-> [cluster |-> r.ClusterName, resourceGroup |-> r.ResourceGroup,
                  status |-> state.Status],
      spec |-> [operationStatus |-> state.OperationType,
                operationType |-> state.OperationType,
                clusterName |-> r.ClusterName,
                resourceGroup |-> r.ResourceGroup,
                inProgress |-> state.InProgress],
      status |-> [phase |-> StrPhaseRunning] ]

\* The CR built for an ongoing operation.  The two time.Now() stamps
\* (annotation azure.operation.started, status.lastChecked) are left out.
createOperationCR(r, name, state) ==
    [ name |-> name,
      namespace |-> StrDefault,
      labels |-> [cluster |-> r.ClusterName, resourceGroup |-> r.ResourceGroup,
                  status |-> state.Status],
      spec |-> [operationStatus |-> state.Status,
                operationType |-> state.OperationType,
                clusterName |-> r.ClusterName,
                resourceGroup |-> r.ResourceGroup,
                inProgress |-> state.InProgress],
      status |-> [phase |-> StrPhaseRunning] ]

\* Deletes the listed items one after the other; a failed Delete is logged
\* and the loop continues.
RECURSIVE DeleteEach(_, _, _)
DeleteEach(st, items, f) ==
    IF items = {} THEN st
    ELSE LET n == CHOOSE x \in items : TRUE
             d == StoreDelete(st, n, n \in f.del)
         IN DeleteEach(d.store, items \ {n}, f)

cleanupAllOperationCRs_none(st, f) == [err |-> "nil", store |-> st]

\* List every Operation CR of namespace "default" and delete each of them.
cleanupAllOperationCRs(st, f) ==
    IF f.list THEN [err |-> "list", store |-> st]
    ELSE [err |-> "nil",
          store |-> DeleteEach(st, {cr.name : cr \in {c \in st : c.namespace = StrDefault}}, f)]

Outcome(st, path, err, opName, exists) ==
    [store |-> st, path |-> path, err |-> err, opName |-> opName, exists |-> exists,
     result |-> [RequeueAfter |-> RequeueInterval]]

ReconcileInProgress_always_create(r, st, state, opName, exists, f) ==
    LET c == StoreCreate(st, createOperationCR(r, opName, state), f.create)
    IN IF c.err # "nil"
       THEN Outcome(st, "create-error", "create", opName, exists)
       ELSE Outcome(c.store, "create", "nil", opName, exists)

\* Reconcile, state.InProgress: create the CR if it does not exist.
ReconcileInProgress(r, st, state, opName, exists, f) ==
    IF ~exists
    THEN LET c == StoreCreate(st, createOperationCR(r, opName, state), f.create)
         IN IF c.err # "nil"
            THEN Outcome(st, "create-error", "create", opName, exists)
            ELSE Outcome(c.store, "create", "nil", opName, exists)
    ELSE Outcome(st, "exists", "nil", opName, exists)

ReconcileNotInProgress_creates(r, st, state, opName, exists, f) ==
    IF ~exists
    THEN Outcome(StoreCreate(st, createOperationCR(r, opName, state), f.create).store,
                 "noop", "nil", opName, exists)
    ELSE Outcome(st, "delete", "nil", opName, exists)

\* Reconcile, ~state.InProgress: delete the CR if it exists, then clean up
\* every other Operation CR; a cleanup error is only logged.
ReconcileNotInProgress(r, st, state, opName, exists, f) ==
    LET d == IF exists THEN StoreDelete(st, opName, opName \in f.del)
             ELSE [err |-> "nil", store |-> st]
    IN IF exists /\ d.err \notin {"nil", "NotFound"}
       THEN Outcome(st, "delete-error", "delete", opName, exists)
       ELSE Outcome(cleanupAllOperationCRs(d.store, f).store,
                    IF exists THEN "delete" ELSE "noop", "nil", opName, exists)

Reconcile_mutates_on_oracle_error(r, st, req, orc, f) ==
    IF orc.err
    THEN [store |-> {}, path |-> "oracle-error", err |-> "oracle", opName |-> Nil,
          exists |-> FALSE, result |-> [RequeueAfter |-> RequeueInterval]]
    ELSE LET opName == generateOperationName(r, orc.state)
             exists == StoreGet(st, opName, f.get) = "nil"
         IN IF orc.state.InProgress
            THEN ReconcileInProgress(r, st, orc.state, opName, exists, f)
            ELSE ReconcileNotInProgress(r, st, orc.state, opName, exists, f)

Reconcile_no_requeue_on_error(r, st, req, orc, f) ==
    IF orc.err
    THEN [store |-> st, path |-> "oracle-error", err |-> "oracle", opName |-> Nil,
          exists |-> FALSE, result |-> [RequeueAfter |-> 0]]
    ELSE LET opName == generateOperationName(r, orc.state)
             exists == StoreGet(st, opName, f.get) = "nil"
         IN IF orc.state.InProgress
            THEN ReconcileInProgress(r, st, orc.state, opName, exists, f)
            ELSE ReconcileNotInProgress(r, st, orc.state, opName, exists, f)

Reconcile_uses_request(r, st, req, orc, f) ==
    IF orc.err
    THEN [store |-> st, path |-> "oracle-error", err |-> "oracle", opName |-> Nil,
          exists |-> FALSE, result |-> [RequeueAfter |-> RequeueInterval]]
    ELSE LET opName == req.Name
             exists == StoreGet(st, opName, f.get) = "nil"
         IN IF orc.state.InProgress
            THEN ReconcileInProgress(r, st, orc.state, opName, exists, f)
            ELSE ReconcileNotInProgress(r, st, orc.state, opName, exists, f)

\* One Reconcile run on store st: the oracle answered orc, the store's calls
\* fail as f says.  The request req is only logged.
Reconcile(r, st, req, orc, f) ==
    IF orc.err
    THEN [store |-> st, path |-> "oracle-error", err |-> "oracle", opName |-> Nil,
          exists |-> FALSE, result |-> [RequeueAfter |-> RequeueInterval]]
    ELSE LET opName == generateOperationName(r, orc.state)
             exists == StoreGet(st, opName, f.get) = "nil"
         IN IF orc.state.InProgress
            THEN ReconcileInProgress(r, st, orc.state, opName, exists, f)
            ELSE ReconcileNotInProgress(r, st, orc.state, opName, exists, f)

\* ---- actions of the reconciler ----
NoRun == [ran |-> FALSE]

\* The external control plane moves to another provisioning state, or the
\* query starts or stops failing.
OracleChange ==
    /\ \E o \in OracleResults : o # oracle /\ oracle' = o
    /\ UNCHANGED <<reconciler, store, last, cluster, generated, runs, poll, auxVars>>
    /\ UNCHANGED monVars
    /\ UNCHANGED evalVars

\* A Reconcile run (the manager's requeue, a watch event or StartPolling).
ReconcileStep ==
    /\ \E req \in Requests, f \in StoreFaults(store) :
          \E out \in {Reconcile(reconciler, store, req, oracle, f)} :
             /\ store' = out.store
             /\ last' = [ran |-> TRUE, req |-> req, oracle |-> oracle, pre |-> store,
                         faults |-> f, out |-> out]
    /\ UNCHANGED <<reconciler, oracle, cluster, generated, runs, poll, auxVars>>
    /\ UNCHANGED monVars
    /\ UNCHANGED evalVars


(***************************************************************************)
(* Health controller: the parsed ConfigMaps                                *)
(***************************************************************************)
\* A JSON value after json.Unmarshal into interface{}: a float64, a bool
\* (v is 1 for true, 0 for false) or a string.
Num(n) == [t |-> "num", v |-> n]
Bool(b) == [t |-> "bool", v |-> IF b THEN 1 ELSE 0]
Str == [t |-> "str", v |-> 0]

\* A map[string]interface{}; nil when the type assertion found no map.
Map(kv) == [nil |-> FALSE, kv |-> kv]
NilMap == [nil |-> TRUE, kv |-> <<>>]

\* parsed[key].(map[string]interface{})
Section(parsed, key) == IF key \in DOMAIN parsed THEN parsed[key] ELSE NilMap

HealthySections ==
    [ pod_metrics |-> Map([crashing_percent |-> Num(5), restart_percent |-> Num(0),
                           total_restarts |-> Num(1), pending_percent |-> Num(0)]),
      node_metrics |-> Map([not_ready_percent |-> Num(0)]),
      container_stats |-> Map([crash_loop_percent |-> Num(0)]),
      serviceHealth |-> Map([healthy |-> Bool(TRUE)]),
      resource_usage |-> Map([cpu_usage_percent |-> Num(20),
                              memory_usage_percent |-> Num(30)]) ]

\* metrics-store as Get returns it: status "ok" with current_metrics.json
\* parsed, or the reason checkAndAbortIfUnhealthy gives up on it.
SnapHealthy == [status |-> "ok", parsed |-> HealthySections]
SnapMany ==
    [status |-> "ok",
     parsed |-> [HealthySections EXCEPT
                   !.serviceHealth = Map([healthy |-> Bool(FALSE)]),
                   !.pod_metrics = Map([crashing_percent |-> Num(10),
                                        restart_percent |-> Num(0),
                                        total_restarts |-> Num(1),
                                        pending_percent |-> Num(0)]),
                   !.resource_usage = Map([cpu_usage_percent |-> Num(95),
                                           memory_usage_percent |-> Num(30)])]]
SnapUnreadable == [status |-> "get-error", parsed |-> <<>>]

Snapshots == {SnapHealthy, SnapMany, SnapUnreadable}

StandardThresholds ==
    [status |-> "ok",
     parsed |-> [thresholds |->
        Map([crashing_pods_percent |-> Num(10), pending_pods_percent |-> Num(50),
             not_ready_nodes_percent |-> Num(20), restart_count |-> Num(100),
             restart_percent |-> Num(50), crash_loop_percent |-> Num(10),
             cpu_usage_percent |-> Num(90), memory_usage_percent |-> Num(90)])]]
MalformedThresholds ==
    [status |-> "ok",
     parsed |-> [thresholds |-> Map([crashing_pods_percent |-> Str])]]

ThresholdConfigs == {StandardThresholds, MalformedThresholds}

(***************************************************************************)
(* Health controller: the threshold evaluator                              *)
(***************************************************************************)
validateMetricSections_pods_optional(podMetrics, nodeMetrics, containerStats, serviceHealth, resourceUsage, thresholdsMap) ==
    IF nodeMetrics.nil THEN "no node metrics found"
    ELSE IF containerStats.nil THEN "no container stats found"
    ELSE IF serviceHealth.nil THEN "no service health found"
    ELSE IF resourceUsage.nil THEN "no resource usage found"
    ELSE IF thresholdsMap.nil THEN "no thresholds found"
    ELSE "nil"

\* validateMetricSections: the first missing section, or "nil"
validateMetricSections(podMetrics, nodeMetrics, containerStats, serviceHealth, resourceUsage, thresholdsMap) ==
    IF podMetrics.nil THEN "no pod metrics found"
    ELSE IF nodeMetrics.nil THEN "no node metrics found"
    ELSE IF containerStats.nil THEN "no container stats found"
    ELSE IF serviceHealth.nil THEN "no service health found"
    ELSE IF resourceUsage.nil THEN "no resource usage found"
    ELSE IF thresholdsMap.nil THEN "no thresholds found"
    ELSE "nil"

ThresholdKeys ==
    <<"not_ready_nodes_percent", "crash_loop_percent", "crashing_pods_percent",
      "restart_percent", "restart_count", "pending_pods_percent",
      "cpu_usage_percent", "memory_usage_percent">>

\* getThreshold's val.(float64) panics on a value that is not a number
getThresholdPanics(thresholdsMap) ==
    \E i \in DOMAIN ThresholdKeys :
        /\ ThresholdKeys[i] \in DOMAIN thresholdsMap.kv
        /\ thresholdsMap.kv[ThresholdKeys[i]].t # "num"

CheckOne_strictly_above(section, field, thresholdsMap, key, reason) ==
    IF /\ key \in DOMAIN thresholdsMap.kv
       /\ field \in DOMAIN section.kv
       /\ section.kv[field].t = "num"
       /\ section.kv[field].v > thresholdsMap.kv[key].v
    THEN << [Metric |-> key, Current |-> section.kv[field].v,
             Threshold |-> thresholdsMap.kv[key].v, Reason |-> reason] >>
    ELSE << >>

\* One `if threshold, ok := getThreshold(key); ok { if v, exists :=
\* section[field].(float64); exists && v >= threshold { append } }`
CheckOne(section, field, thresholdsMap, key, reason) ==
    IF /\ key \in DOMAIN thresholdsMap.kv
       /\ field \in DOMAIN section.kv
       /\ section.kv[field].t = "num"
       /\ section.kv[field].v >= thresholdsMap.kv[key].v
    THEN << [Metric |-> key, Current |-> section.kv[field].v,
             Threshold |-> thresholdsMap.kv[key].v, Reason |-> reason] >>
    ELSE << >>

checkNodeMetrics(nodeMetrics, th) ==
    CheckOne(nodeMetrics, "not_ready_percent", th, "not_ready_nodes_percent",
             "not_ready_nodes_threshold_exceeded")

checkContainerMetrics(containerStats, th) ==
    CheckOne(containerStats, "crash_loop_percent", th, "crash_loop_percent",
             "crash_loop_threshold_exceeded")

checkPodMetrics_order_varies(podMetrics, th) ==
    IF evaluated.n = 0
    THEN CheckOne(podMetrics, "crashing_percent", th, "crashing_pods_percent",
                  "crashing_pods_threshold_exceeded")
         \o CheckOne(podMetrics, "restart_percent", th, "restart_percent",
                     "restart_percent_exceeded")
         \o CheckOne(podMetrics, "total_restarts", th, "restart_count",
                     "restart_count_threshold_exceeded")
         \o CheckOne(podMetrics, "pending_percent", th, "pending_pods_percent",
                     "pending_pods_threshold_exceeded")
    ELSE CheckOne(podMetrics, "pending_percent", th, "pending_pods_percent",
                  "pending_pods_threshold_exceeded")
         \o CheckOne(podMetrics, "total_restarts", th, "restart_count",
                     "restart_count_threshold_exceeded")
         \o CheckOne(podMetrics, "restart_percent", th, "restart_percent",
                     "restart_percent_exceeded")
         \o CheckOne(podMetrics, "crashing_percent", th, "crashing_pods_percent",
                     "crashing_pods_threshold_exceeded")

checkPodMetrics(podMetrics, th) ==
    CheckOne(podMetrics, "crashing_percent", th, "crashing_pods_percent",
             "crashing_pods_threshold_exceeded")
    \o CheckOne(podMetrics, "restart_percent", th, "restart_percent",
                "restart_percent_exceeded")
    \o CheckOne(podMetrics, "total_restarts", th, "restart_count",
                "restart_count_threshold_exceeded")
    \o CheckOne(podMetrics, "pending_percent", th, "pending_pods_percent",
                "pending_pods_threshold_exceeded")

checkResourceUsage(resourceUsage, th) ==
    CheckOne(resourceUsage, "cpu_usage_percent", th, "cpu_usage_percent",
             "cpu_usage_threshold_exceeded")
    \o CheckOne(resourceUsage, "memory_usage_percent", th, "memory_usage_percent",
                "memory_usage_threshold_exceeded")

checkServiceHealth_if_configured(serviceHealth) ==
    IF /\ "healthy" \in DOMAIN serviceHealth.kv
       /\ serviceHealth.kv["healthy"].t = "bool"
       /\ serviceHealth.kv["healthy"].v = 0
       /\ "service_health" \in DOMAIN Section(thresholds.parsed, "thresholds").kv
    THEN << [Metric |-> "service_health", Current |-> 0, Threshold |-> 1,
             Reason |-> "service_health_false"] >>
    ELSE << >>

\* if healthy, ok := serviceHealth["healthy"].(bool); ok && !healthy
checkServiceHealth(serviceHealth) ==
    IF /\ "healthy" \in DOMAIN serviceHealth.kv
       /\ serviceHealth.kv["healthy"].t = "bool"
       /\ serviceHealth.kv["healthy"].v = 0
    THEN << [Metric |-> "service_health", Current |-> 0, Threshold |-> 1,
             Reason |-> "service_health_false"] >>
    ELSE << >>

checkAllThresholds_pods_first(podMetrics, nodeMetrics, containerStats, serviceHealth, resourceUsage, thresholdsMap) ==
    checkPodMetrics(podMetrics, thresholdsMap)
    \o checkServiceHealth(serviceHealth)
    \o checkNodeMetrics(nodeMetrics, thresholdsMap)
    \o checkContainerMetrics(containerStats, thresholdsMap)
    \o checkResourceUsage(resourceUsage, thresholdsMap)

checkAllThresholds(podMetrics, nodeMetrics, containerStats, serviceHealth, resourceUsage, thresholdsMap) ==
    checkServiceHealth(serviceHealth)
    \o checkNodeMetrics(nodeMetrics, thresholdsMap)
    \o checkContainerMetrics(containerStats, thresholdsMap)
    \o checkPodMetrics(podMetrics, thresholdsMap)
    \o checkResourceUsage(resourceUsage, thresholdsMap)

\* The part of checkAndAbortIfUnhealthy after both ConfigMaps were parsed:
\* "skip" (validation failed, returns false), "panic", or the violations.
Evaluate(parsed, thresholdsParsed) ==
    LET podMetrics == Section(parsed, "pod_metrics")
        nodeMetrics == Section(parsed, "node_metrics")
        containerStats == Section(parsed, "container_stats")
        serviceHealth == Section(parsed, "serviceHealth")
        resourceUsage == Section(parsed, "resource_usage")
        thresholdsMap == Section(thresholdsParsed, "thresholds")
    IN IF validateMetricSections(podMetrics, nodeMetrics, containerStats,
                                 serviceHealth, resourceUsage, thresholdsMap) # "nil"
       THEN [kind |-> "skip", violations |-> << >>]
       ELSE IF getThresholdPanics(thresholdsMap)
       THEN [kind |-> "panic", violations |-> << >>]
       ELSE [kind |-> "ok",
             violations |-> checkAllThresholds(podMetrics, nodeMetrics, containerStats,
                                               serviceHealth, resourceUsage,
                                               thresholdsMap)]


\* checkAndAbortIfUnhealthy up to its decision, on the two ConfigMaps as
\* read: a ConfigMap that cannot be fetched or parsed makes it return false.
checkAndAbortIfUnhealthy(snap, thr) ==
    IF snap.status # "ok" \/ thr.status # "ok"
    THEN [kind |-> "skip", violations |-> << >>]
    ELSE Evaluate(snap.parsed, thr.parsed)

(***************************************************************************)
(* Health controller: informer handlers and monitor goroutines             *)
(***************************************************************************)
MaxMonitors == 2        \* goroutines spawned in one behaviour
MaxUpdates == 2         \* metrics-store writes in one behaviour
CRNames == {"op-a", "op-b"}

MetricsUpdatedCap == 1  \* make(chan struct{}, 1)

\* A goroutine running monitorOperation(opName, stopChan, ...).  pc:
\*   "check"   in checkAndAbortIfUnhealthy, up to the reads of the ConfigMaps
\*   "abort"   inside abort(): AbortClusterOperation is outstanding
\*   "select"  blocked in the select on stopChan and metricsUpdated
\*   "done"    returned
\* evals (checks made), consumed (update signals received), aborts (calls of
\* abort()), reported and abortErr record what it has done; woke is the
\* number of signals delivered for its last wake-up, wokeAt the metrics-store
\* write the last of them was for, read the write its last check has read.
monitorOperation_no_initial_check(opName, stopChan) ==
    [name |-> opName, stop |-> stopChan, pc |-> "select",
     evals |-> 0, consumed |-> 0, aborts |-> 0,
     reported |-> << >>, abortErr |-> Nil,
     woke |-> 0, wokeAt |-> 0, read |-> 0]

monitorOperation(opName, stopChan) ==
    [name |-> opName, stop |-> stopChan, pc |-> "check",
     evals |-> 0, consumed |-> 0, aborts |-> 0,
     reported |-> << >>, abortErr |-> Nil,
     woke |-> 0, wokeAt |-> 0, read |-> 0]

AddFuncResult_no_exists_check(om, gs, name) ==
    LET stop == Len(gs) + 1
    IN [operationMonitors |-> [n \in DOMAIN om \cup {name} |->
                                  IF n = name THEN stop ELSE om[n]],
        mon |-> Append(gs, monitorOperation(name, stop)),
        skipped |-> FALSE]

\* AddFunc: skip when the name already has a monitor, else make a stop
\* channel, store it and start the goroutine.
AddFuncResult(om, gs, name) ==
    IF name \in DOMAIN om
    THEN [operationMonitors |-> om, mon |-> gs, skipped |-> TRUE]
    ELSE LET stop == Len(gs) + 1
         IN [operationMonitors |-> [n \in DOMAIN om \cup {name} |->
                                       IF n = name THEN stop ELSE om[n]],
             mon |-> Append(gs, monitorOperation(name, stop)),
             skipped |-> FALSE]

DeleteFuncResult_closes_all(om, cl, name) ==
    IF name \in DOMAIN om
    THEN [operationMonitors |-> [n \in DOMAIN om \ {name} |-> om[n]],
          closed |-> cl \cup {om[n] : n \in DOMAIN om},
          panic |-> om[name] \in cl, stopped |-> TRUE]
    ELSE [operationMonitors |-> om, closed |-> cl, panic |-> FALSE, stopped |-> FALSE]

DeleteFuncResult_keeps_entry(om, cl, name) ==
    IF name \in DOMAIN om
    THEN [operationMonitors |-> om, closed |-> cl \cup {om[name]},
          panic |-> om[name] \in cl, stopped |-> TRUE]
    ELSE [operationMonitors |-> om, closed |-> cl, panic |-> FALSE, stopped |-> FALSE]

DeleteFuncResult_no_close(om, cl, name) ==
    IF name \in DOMAIN om
    THEN [operationMonitors |-> [n \in DOMAIN om \ {name} |-> om[n]],
          closed |-> cl, panic |-> FALSE, stopped |-> TRUE]
    ELSE [operationMonitors |-> om, closed |-> cl, panic |-> FALSE, stopped |-> FALSE]

\* DeleteFunc: close the stop channel and remove the entry, if there is one.
\* close() of a closed channel panics.
DeleteFuncResult(om, cl, name) ==
    IF name \in DOMAIN om
    THEN [operationMonitors |-> [n \in DOMAIN om \ {name} |-> om[n]],
          closed |-> cl \cup {om[name]},
          panic |-> om[name] \in cl,
          stopped |-> TRUE]
    ELSE [operationMonitors |-> om, closed |-> cl, panic |-> FALSE, stopped |-> FALSE]

SignalMetricsUpdated_queues(n) == n + 1

\* select { case metricsUpdated <- struct{}{}: default: }
SignalMetricsUpdated(n) == IF n < MetricsUpdatedCap THEN n + 1 ELSE n

abort_true_only_on_success(err) == err = "nil"

\* abort(): the error is printed, the return value is always true
abort(err) == TRUE

\* monitorOperation: return when the check returned true, else (back to) select
AfterCheck(returned) == IF returned THEN "done" ELSE "select"

Digits == <<"0","1","2","3","4","5","6","7","8","9">>

\* %d of a non-negative int
RECURSIVE Itoa(_)
Itoa(n) == IF n < 10 THEN <<Digits[n + 1]>>
           ELSE Itoa(n \div 10) \o <<Digits[(n % 10) + 1]>>

StrReasonPrefix ==
    <<"m","u","l","t","i","p","l","e","_","t","h","r","e","s","h","o","l","d","_",
      "v","i","o","l","a","t","i","o","n","s","_">>

AbortReason_without_count(violations) == StrReasonPrefix

\* fmt.Sprintf("multiple_threshold_violations_%d", len(violations))
AbortReason(violations) == StrReasonPrefix \o Itoa(Len(violations))

reportViolations_first_only(violations) == <<violations[1]>>

\* reportViolations prints every violation, in order
reportViolations(violations) == violations

AbortErrors == {"nil", "conflict", "failed"}

\* ---- informer callbacks ----
AddFunc(name) ==
    /\ panicked = NoPanic
    /\ LET r == AddFuncResult(operationMonitors, mon, name)
       IN /\ Len(r.mon) <= MaxMonitors
          /\ operationMonitors' = r.operationMonitors
          /\ mon' = r.mon
          /\ lastEvent' = [h |-> "AddFunc", name |-> name,
                           known |-> name \in DOMAIN operationMonitors]
    /\ UNCHANGED <<closed, metricsUpdated, snapshot, thresholds, cmEvents, sent,
                   abortLog, panicked, burst>>
    /\ UNCHANGED recVars
    /\ UNCHANGED evalVars

DeleteFunc(name) ==
    /\ panicked = NoPanic
    /\ LET r == DeleteFuncResult(operationMonitors, closed, name)
       IN /\ operationMonitors' = r.operationMonitors
          /\ closed' = r.closed
          /\ panicked' = IF r.panic THEN "close of closed channel" ELSE panicked
          /\ lastEvent' = [h |-> "DeleteFunc", name |-> name,
                           known |-> name \in DOMAIN operationMonitors]
    /\ UNCHANGED <<metricsUpdated, mon, snapshot, thresholds, cmEvents, sent, abortLog,
                   burst>>
    /\ UNCHANGED recVars
    /\ UNCHANGED evalVars

\* The metric collector writes metrics-store; the informer will deliver it.
MetricsStoreWrite(s) ==
    /\ panicked = NoPanic
    /\ sent < MaxUpdates
    /\ snapshot' = s
    /\ cmEvents' = cmEvents + 1
    /\ sent' = sent + 1
    /\ UNCHANGED <<operationMonitors, closed, metricsUpdated, mon, thresholds,
                   abortLog, panicked, lastEvent, burst>>
    /\ UNCHANGED recVars
    /\ UNCHANGED evalVars

\* UpdateFunc for ConfigMap "metrics-store": non-blocking send
UpdateFunc ==
    /\ panicked = NoPanic
    /\ cmEvents > 0
    /\ cmEvents' = cmEvents - 1
    /\ metricsUpdated' = SignalMetricsUpdated(metricsUpdated)
    /\ burst' = burst + 1
    /\ UNCHANGED <<operationMonitors, closed, mon, snapshot, thresholds, sent,
                   abortLog, panicked, lastEvent>>
    /\ UNCHANGED recVars
    /\ UNCHANGED evalVars

\* ---- steps of monitor goroutine i ----
\* checkAndAbortIfUnhealthy up to its decision: Get and parse metrics-store
\* and metric-thresholds, validate, evaluate.  With violations it reports
\* them and calls abort(); every other way out returns false.
Check(i) ==
    /\ panicked = NoPanic
    /\ mon[i].pc = "check"
    /\ \E e \in {checkAndAbortIfUnhealthy(snapshot, thresholds)} :
          IF e.kind = "panic"
          THEN /\ panicked' = "interface conversion"
               /\ UNCHANGED <<mon, abortLog>>
          ELSE IF e.kind = "ok" /\ Len(e.violations) > 0
          THEN /\ mon' = [mon EXCEPT ![i].evals = @ + 1,
                                     ![i].read = sent,
                                     ![i].reported = reportViolations(e.violations),
                                     ![i].aborts = @ + 1,
                                     ![i].pc = "abort"]
               /\ abortLog' = Append(abortLog,
                                     [by |-> i, name |-> mon[i].name,
                                      reason |-> AbortReason(e.violations),
                                      violations |-> e.violations,
                                      evals |-> mon[i].evals + 1])
               /\ UNCHANGED panicked
          ELSE /\ mon' = [mon EXCEPT ![i].evals = @ + 1,
                                     ![i].read = sent,
                                     ![i].pc = AfterCheck(FALSE)]
               /\ UNCHANGED <<abortLog, panicked>>
    /\ UNCHANGED <<operationMonitors, closed, metricsUpdated, snapshot, thresholds,
                   cmEvents, sent, lastEvent, burst>>
    /\ UNCHANGED recVars
    /\ UNCHANGED evalVars

\* AbortClusterOperation returns (nil, a 409 conflict, or another failure)
AbortReturn(i, err) ==
    /\ panicked = NoPanic
    /\ mon[i].pc = "abort"
    /\ mon' = [mon EXCEPT ![i].abortErr = err,
                          ![i].pc = AfterCheck(abort(err))]
    /\ UNCHANGED <<operationMonitors, closed, metricsUpdated, snapshot, thresholds,
                   cmEvents, sent, abortLog, panicked, lastEvent, burst>>
    /\ UNCHANGED recVars
    /\ UNCHANGED evalVars

\* select: case <-stopChan
SelectStop(i) ==
    /\ panicked = NoPanic
    /\ mon[i].pc = "select"
    /\ mon[i].stop \in closed
    /\ mon' = [mon EXCEPT ![i].pc = "done"]
    /\ UNCHANGED <<operationMonitors, closed, metricsUpdated, snapshot, thresholds,
                   cmEvents, sent, abortLog, panicked, lastEvent, burst>>
    /\ UNCHANGED recVars
    /\ UNCHANGED evalVars

SelectUpdate_signal_stays(i) ==
    /\ panicked = NoPanic
    /\ mon[i].pc = "select"
    /\ metricsUpdated > 0
    /\ burst' = 0
    /\ mon' = [mon EXCEPT ![i].consumed = @ + 1, ![i].pc = "check",
                          ![i].woke = burst, ![i].wokeAt = sent - cmEvents]
    /\ UNCHANGED <<operationMonitors, closed, metricsUpdated, snapshot, thresholds,
                   cmEvents, sent, abortLog, panicked, lastEvent>>
    /\ UNCHANGED recVars
    /\ UNCHANGED evalVars

\* select: case <-metricsUpdated
SelectUpdate(i) ==
    /\ panicked = NoPanic
    /\ mon[i].pc = "select"
    /\ metricsUpdated > 0
    /\ metricsUpdated' = metricsUpdated - 1
    /\ burst' = 0
    /\ mon' = [mon EXCEPT ![i].consumed = @ + 1, ![i].pc = "check",
                          ![i].woke = burst, ![i].wokeAt = sent - cmEvents]
    /\ UNCHANGED <<operationMonitors, closed, snapshot, thresholds,
                   cmEvents, sent, abortLog, panicked, lastEvent>>
    /\ UNCHANGED recVars
    /\ UNCHANGED evalVars

(***************************************************************************)
(* The threshold evaluator on its own: inputs and steps                    *)
(***************************************************************************)
MaxEvaluations == 2     \* evaluations made of one pair of inputs

NotEvaluated == [n |-> 0, out |-> Nil, before |-> Nil]

\* The numeric checks in the order the code makes them: threshold key,
\* section of current_metrics.json, field of that section.
MetricFields ==
    << [key |-> "not_ready_nodes_percent", section |-> "node_metrics",
        field |-> "not_ready_percent"],
       [key |-> "crash_loop_percent", section |-> "container_stats",
        field |-> "crash_loop_percent"],
       [key |-> "crashing_pods_percent", section |-> "pod_metrics",
        field |-> "crashing_percent"],
       [key |-> "restart_percent", section |-> "pod_metrics",
        field |-> "restart_percent"],
       [key |-> "restart_count", section |-> "pod_metrics",
        field |-> "total_restarts"],
       [key |-> "pending_pods_percent", section |-> "pod_metrics",
        field |-> "pending_percent"],
       [key |-> "cpu_usage_percent", section |-> "resource_usage",
        field |-> "cpu_usage_percent"],
       [key |-> "memory_usage_percent", section |-> "resource_usage",
        field |-> "memory_usage_percent"] >>

SectionKeys ==
    {"pod_metrics", "node_metrics", "container_stats", "serviceHealth", "resource_usage"}

StdThreshold(key) == StandardThresholds.parsed.thresholds.kv[key].v

\* current_metrics.json with one field of one section set to value
SectionsWith(sections, section, field, value) ==
    [sections EXCEPT ![section] =
        Map([f \in DOMAIN @.kv \cup {field} |-> IF f = field THEN value ELSE @.kv[f]])]

\* current_metrics.json without one of its sections
SectionsWithout(sections, section) ==
    [k \in DOMAIN sections \ {section} |-> sections[k]]

Snap(sections) == [status |-> "ok", parsed |-> sections]

\* only pod_metrics.crashing_percent is above its threshold
SnapCrashing == Snap(SectionsWith(HealthySections, "pod_metrics", "crashing_percent", Num(40)))

\* only serviceHealth.healthy = false
SnapServiceDown == Snap(SectionsWith(HealthySections, "serviceHealth", "healthy", Bool(FALSE)))

\* every check fails
SnapAllBad ==
    Snap([ pod_metrics |-> Map([crashing_percent |-> Num(100), restart_percent |-> Num(100),
                                total_restarts |-> Num(100), pending_percent |-> Num(100)]),
           node_metrics |-> Map([not_ready_percent |-> Num(100)]),
           container_stats |-> Map([crash_loop_percent |-> Num(100)]),
           serviceHealth |-> Map([healthy |-> Bool(FALSE)]),
           resource_usage |-> Map([cpu_usage_percent |-> Num(100),
                                   memory_usage_percent |-> Num(100)]) ])

EvalSnapshots ==
    {SnapHealthy, SnapMany, SnapAllBad, SnapCrashing, SnapServiceDown}
    \cup { Snap(SectionsWith(HealthySections, MetricFields[j].section, MetricFields[j].field,
                             Num(StdThreshold(MetricFields[j].key) + d))) :
              j \in DOMAIN MetricFields, d \in {-1, 0, 1} }
    \cup { Snap(SectionsWith(HealthySections, MetricFields[j].section, MetricFields[j].field,
                             Str)) : j \in DOMAIN MetricFields }
    \cup { Snap(SectionsWith(SnapMany.parsed, "serviceHealth", "healthy", Str)) }
    \cup { Snap(SectionsWithout(SnapMany.parsed, sec)) : sec \in SectionKeys }

Thr(kv) == [status |-> "ok", parsed |-> [thresholds |-> Map(kv)]]

\* thresholds.json with one key left out
ThresholdsWithout(key) ==
    Thr([k \in DOMAIN StandardThresholds.parsed.thresholds.kv \ {key} |->
            StandardThresholds.parsed.thresholds.kv[k]])

\* every threshold one lower than the standard one
LowerThresholds ==
    Thr([k \in DOMAIN StandardThresholds.parsed.thresholds.kv |->
            Num(StandardThresholds.parsed.thresholds.kv[k].v - 1)])

\* "thresholds": {}
EmptyThresholds == [status |-> "ok", parsed |-> [thresholds |-> Map(<< >>)]]

\* thresholds.json without a "thresholds" object
NoThresholdsMap == [status |-> "ok", parsed |-> [other |-> Map(<< >>)]]

\* a threshold configured for service_health as well
ServiceHealthThreshold ==
    Thr([k \in DOMAIN StandardThresholds.parsed.thresholds.kv \cup {"service_health"} |->
            IF k = "service_health" THEN Num(0)
            ELSE StandardThresholds.parsed.thresholds.kv[k]])

EvalThresholdConfigs ==
    {StandardThresholds, LowerThresholds, EmptyThresholds, NoThresholdsMap,
     ServiceHealthThreshold, MalformedThresholds}
    \cup { ThresholdsWithout(MetricFields[j].key) : j \in DOMAIN MetricFields }

\* pod_metrics is missing; serviceHealth and resource_usage are in violation
SnapMissingPods == Snap(SectionsWithout(SnapMany.parsed, "pod_metrics"))

\* What the monitors are run against when single inputs matter.
ScenarioSnapshots == {SnapHealthy, SnapCrashing, SnapMissingPods}
ScenarioThresholds == {StandardThresholds, NoThresholdsMap}

\* metrics-store when the controller starts: also with each section missing
InitialScenarioSnapshots ==
    ScenarioSnapshots \cup {Snap(SectionsWithout(SnapMany.parsed, sec)) : sec \in SectionKeys}

\* metrics-store gets new contents
LoadSnapshot(s) ==
    /\ s # snapshot
    /\ snapshot' = s
    /\ evaluated' = NotEvaluated
    /\ UNCHANGED <<operationMonitors, closed, metricsUpdated, mon, thresholds, cmEvents,
                   sent, abortLog, panicked, burst, lastEvent>>
    /\ UNCHANGED recVars

\* metric-thresholds gets new contents
LoadThresholds(t) ==
    /\ t # thresholds
    /\ thresholds' = t
    /\ evaluated' = NotEvaluated
    /\ UNCHANGED <<operationMonitors, closed, metricsUpdated, mon, snapshot, cmEvents,
                   sent, abortLog, panicked, burst, lastEvent>>
    /\ UNCHANGED recVars

\* one run of the evaluation on the two ConfigMaps as they are
EvaluateStep ==
    /\ evaluated.n < MaxEvaluations
    /\ evaluated' = [n |-> evaluated.n + 1,
                     out |-> checkAndAbortIfUnhealthy(snapshot, thresholds),
                     before |-> evaluated.out]
    /\ UNCHANGED monVars
    /\ UNCHANGED recVars

(***************************************************************************)
(* Status oracle adapter (azure.Client)                                    *)
(***************************************************************************)
ToUpperChar(c) ==
    IF \E i \in DOMAIN LowerChars : LowerChars[i] = c
    THEN UpperChars[CHOOSE i \in DOMAIN LowerChars : LowerChars[i] = c]
    ELSE c

ToUpper(s) == [i \in DOMAIN s |-> ToUpperChar(s[i])]

\* strings.EqualFold on ASCII letters
EqualFold(a, b) ==
    /\ Len(a) = Len(b)
    /\ \A i \in DOMAIN a : ToLowerChar(a[i]) = ToLowerChar(b[i])

\* inProgressStates
inProgressStates ==
    << <<"U","p","g","r","a","d","i","n","g">>,
       <<"U","p","d","a","t","i","n","g">>,
       <<"S","c","a","l","i","n","g">>,
       <<"C","r","e","a","t","i","n","g">>,
       <<"D","e","l","e","t","i","n","g">>,
       <<"R","u","n","n","i","n","g">>,
       <<"I","n","P","r","o","g","r","e","s","s">> >>

StrUnknown == <<"U","n","k","n","o","w","n">>
StrClusterOperation == <<"C","l","u","s","t","e","r","O","p","e","r","a","t","i","o","n">>
StrClusterUpgrade == <<"C","l","u","s","t","e","r","U","p","g","r","a","d","e">>
StrNodePoolScale == <<"N","o","d","e","P","o","o","l","S","c","a","l","e">>
StrAddonUpdate == <<"A","d","d","o","n","U","p","d","a","t","e">>
StrClusterUpdate == <<"C","l","u","s","t","e","r","U","p","d","a","t","e">>

isOperationInProgress_exact_case(provisioningState) ==
    \E j \in DOMAIN inProgressStates : provisioningState = inProgressStates[j]

isOperationInProgress(provisioningState) ==
    \E j \in DOMAIN inProgressStates : EqualFold(provisioningState, inProgressStates[j])

\* A pointer (or slice, or map) of the SDK's response: nil, or set to v.
Some(v) == [set |-> TRUE, v |-> v]
None == [set |-> FALSE, v |-> << >>]

determineOperationType(c) ==
    IF ~c.Properties.set THEN StrClusterOperation
    ELSE IF c.Properties.v.KubernetesVersion.set THEN StrClusterUpgrade
    ELSE IF /\ c.Properties.v.AgentPoolProfiles.set
            /\ \E j \in DOMAIN c.Properties.v.AgentPoolProfiles.v :
                  /\ c.Properties.v.AgentPoolProfiles.v[j].set
                  /\ isOperationInProgress(c.Properties.v.AgentPoolProfiles.v[j].v)
         THEN StrNodePoolScale
    ELSE IF c.Properties.v.AddonProfiles.set THEN StrAddonUpdate
    ELSE StrClusterUpdate

\* GetClusterOperationStatus: (status, err).  OperationID, StartTime, EndTime
\* and Error are left out: the first holds the time of the call, the others
\* are never set.
GetClusterOperationStatus(c) ==
    IF c.getErr
    THEN [err |-> TRUE, queried |-> TRUE,
          state |-> [InProgress |-> FALSE, Type |-> Empty, Status |-> Empty]]
    ELSE IF c.Properties.set /\ c.Properties.v.ProvisioningState.set
    THEN [err |-> FALSE, queried |-> TRUE,
          state |-> [InProgress |-> isOperationInProgress(c.Properties.v.ProvisioningState.v),
                     Type |-> determineOperationType(c),
                     Status |-> c.Properties.v.ProvisioningState.v]]
    ELSE [err |-> FALSE, queried |-> TRUE,
          state |-> [InProgress |-> FALSE, Type |-> StrClusterOperation,
                     Status |-> StrUnknown]]

\* provisioning states that are not in inProgressStates in any case
OtherStates ==
    { <<"S","u","c","c","e","e","d","e","d">>,
      <<"F","a","i","l","e","d">>,
      <<"C","a","n","c","e","l","e","d">>,
      <<"C","a","n","c","e","l","i","n","g">>,
      <<"S","t","o","p","p","e","d">>,
      <<"U","n","k","n","o","w","n">>,
      <<>>,
      <<"U","p","d","a","t","i","n">>,
      <<"U","p","d","a","t","i","n","g"," ">>,
      <<"I","n"," ","P","r","o","g","r","e","s","s">> }

ProvisioningStates ==
    {inProgressStates[j] : j \in DOMAIN inProgressStates}
    \cup {ToLower(inProgressStates[j]) : j \in DOMAIN inProgressStates}
    \cup {ToUpper(inProgressStates[j]) : j \in DOMAIN inProgressStates}
    \cup OtherStates \cup {ToLower(x) : x \in OtherStates}

\* the node pools' provisioning states
PoolStates ==
    { << >>, <<None>>, <<Some(StrSucceeded), Some(<<"s","c","a","l","i","n","g">>)>>,
      <<Some(StrSucceeded)>> }

Clusters ==
    [getErr : {FALSE},
     Properties : {Some(x) : x \in
                    [ProvisioningState : {Some(x) : x \in ProvisioningStates} \cup {None},
                     KubernetesVersion : {None, Some(<<"1",".","2","9">>)},
                     AgentPoolProfiles : {Some(x) : x \in PoolStates} \cup {None},
                     AddonProfiles : {None, Some(<<"a">>)}]}]
    \cup {[getErr |-> FALSE, Properties |-> None], [getErr |-> TRUE, Properties |-> None]}

\* Clusters as the managed-cluster Get answers them, with the version the
\* cluster runs (CurrentKubernetesVersion) next to the version asked for
\* (KubernetesVersion); the classification reads only the latter.
VersionedClusters ==
    [getErr : {FALSE},
     Properties : {Some(x) : x \in
                    [ProvisioningState : {Some(<<"U","p","g","r","a","d","i","n","g">>),
                                          Some(<<"S","c","a","l","i","n","g">>),
                                          Some(StrUpdating)},
                     KubernetesVersion : {None, Some(<<"1",".","2","9">>)},
                     CurrentKubernetesVersion : {None, Some(<<"1",".","2","8">>),
                                                 Some(<<"1",".","2","9">>)},
                     AgentPoolProfiles : {None, Some(<<Some(<<"S","c","a","l","i","n","g">>)>>),
                                          Some(<<Some(StrSucceeded)>>)},
                     AddonProfiles : {None, Some(<<"a">>)}]}]

NotQueried ==
    [err |-> FALSE, queried |-> FALSE,
     state |-> [InProgress |-> FALSE, Type |-> Empty, Status |-> Empty]]

\* the cluster changes in Azure
ClusterChange(c) ==
    /\ c # cluster
    /\ cluster' = c
    /\ oracle' = NotQueried
    /\ UNCHANGED <<reconciler, store, last, generated, runs, poll, auxVars>>
    /\ UNCHANGED monVars
    /\ UNCHANGED evalVars

\* one call of GetClusterOperationStatus
QueryOracle ==
    /\ ~oracle.queried
    /\ oracle' = GetClusterOperationStatus(cluster)
    /\ UNCHANGED <<reconciler, store, last, cluster, generated, runs, poll, auxVars>>
    /\ UNCHANGED monVars
    /\ UNCHANGED evalVars

(***************************************************************************)
(* Orphan cleanup                                                          *)
(***************************************************************************)
\* CleanupOrphanedCRs of the polling reconciler: list the Operation CRs of
\* r.Namespace ("default" unless configured) labelled azure.cluster.name =
\* r.ClusterName and delete each; a failed Delete is logged.  The oracle is
\* not asked.
CleanupOrphanedCRs(r, st, f) ==
    IF f.list THEN [err |-> "list", store |-> st]
    ELSE LET items == {cr \in st : cr.namespace = StrDefault
                                     /\ cr.labels.cluster = r.ClusterName}
         IN [err |-> "nil", store |-> DeleteEach(st, {cr.name : cr \in items}, f)]

\* a reconciler of another cluster writing to the same namespace
OtherReconciler == [ClusterName |-> <<"o","-","c">>, ResourceGroup |-> <<"r","g">>]

StateUpdating == [InProgress |-> TRUE, OperationType |-> Empty, Status |-> StrUpdating]

\* the record reconciler r creates while its cluster is updating
RecordOf(r) == createOperationCR(r, generateOperationName(r, StateUpdating), StateUpdating)

\* main: with --cleanup, CleanupOrphanedCRs runs once at startup
CleanupStep ==
    /\ \E f \in StoreFaults(store) :
          \E out \in {CleanupOrphanedCRs(reconciler, store, f)} :
             /\ store' = out.store
             /\ last' = [ran |-> TRUE, req |-> Nil, oracle |-> oracle, pre |-> store,
                         faults |-> f,
                         out |-> [store |-> out.store, path |-> "orphan-cleanup",
                                  err |-> out.err]]
    /\ UNCHANGED <<reconciler, oracle, cluster, generated, runs, poll, auxVars>>
    /\ UNCHANGED monVars
    /\ UNCHANGED evalVars

(***************************************************************************)
(* Reconcile runs that overlap                                             *)
(***************************************************************************)
\* the number of Reconcile runs in flight at once
MaxRuns == 2

NotStarted ==
    [pc |-> "idle", orc |-> [err |-> TRUE, state |-> Nil], opName |-> Nil,
     exists |-> FALSE, out |-> Nil]

NoRuns == [k \in 1..MaxRuns |-> NotStarted]

\* Reconcile up to the existence check: the oracle is queried, the name is
\* generated and r.Get says whether the CR exists.  With an oracle error the
\* run returns here.
ReconcileRead(k) ==
    /\ runs[k].pc = "idle"
    /\ IF oracle.err
       THEN runs' = [runs EXCEPT ![k] =
                       [pc |-> "done", orc |-> oracle, opName |-> Nil, exists |-> FALSE,
                        out |-> Reconcile(reconciler, store, Nil, oracle, NoFaults)]]
       ELSE LET opName == generateOperationName(reconciler, oracle.state)
            IN runs' = [runs EXCEPT ![k] =
                          [pc |-> "read", orc |-> oracle, opName |-> opName,
                           exists |-> StoreGet(store, opName, FALSE) = "nil",
                           out |-> Nil]]
    /\ UNCHANGED <<reconciler, oracle, store, last, cluster, generated, poll, auxVars>>
    /\ UNCHANGED monVars
    /\ UNCHANGED evalVars

\* Reconcile from the existence check on: it acts on the store as it is now
\* with the exists it computed before.
ReconcileWrite(k) ==
    /\ runs[k].pc = "read"
    /\ LET run == runs[k]
           out == IF run.orc.state.InProgress
                  THEN ReconcileInProgress(reconciler, store, run.orc.state, run.opName,
                                           run.exists, NoFaults)
                  ELSE ReconcileNotInProgress(reconciler, store, run.orc.state, run.opName,
                                              run.exists, NoFaults)
       IN /\ store' = out.store
          /\ runs' = [runs EXCEPT ![k] = [run EXCEPT !.pc = "done", !.out = out]]
    /\ UNCHANGED <<reconciler, oracle, last, cluster, generated, poll, auxVars>>
    /\ UNCHANGED monVars
    /\ UNCHANGED evalVars

(***************************************************************************)
(* The name generators on their own                                        *)
(***************************************************************************)
\* the number of times the names are generated for one input
MaxGenerations == 2

NotGenerated == [n |-> 0, names |-> Nil, before |-> Nil]

\* a cluster name as long as AKS allows one to be
LongClusterName == [i \in 1..NameLimit |-> IF i = 1 THEN "P" ELSE "x"]

ClusterNames ==
    { <<"t","-","c">>, <<"M","y",".","C","_","1">>, <<"m","y"," ","c">>,
      <<"A","K","S","_","p","r","o","d",".","e","u">>, LongClusterName }

TypeStrings ==
    { Empty, StrUpdating, <<"N","o","d","e"," ","P","o","o","l","_","S","c","a","l","e">>,
      <<"c","l","u","s","t","e","r",".","u","p","g","r","a","d","e">> }

StatusStrings == { StrUpdating, <<"I","n"," ","P","r","o","g","r","e","s","s">>, StrSucceeded }

\* what the oracle hands to the two generators: the manager-based one reads
\* OperationType and Status, the polling one reads Type
NameStates ==
    { [InProgress |-> TRUE, OperationType |-> t, Type |-> t, Status |-> st] :
        t \in TypeStrings, st \in StatusStrings }

\* both reconcilers compute the record name for the current oracle state
GenerateNames ==
    /\ generated.n < MaxGenerations
    /\ generated' = [n |-> generated.n + 1,
                     names |-> [manager |-> generateOperationName(reconciler, oracle.state),
                                polling |-> generateOperationNamePolling(reconciler, oracle.state)],
                     before |-> generated.names]
    /\ UNCHANGED <<reconciler, oracle, store, last, cluster, runs, poll, auxVars>>
    /\ UNCHANGED monVars
    /\ UNCHANGED evalVars

(***************************************************************************)
(* OperationReconciler (polling): one sync cycle                           *)
(***************************************************************************)
StrInProgressLabel == <<"i","n","-","p","r","o","g","r","e","s","s">>
StrPhaseInProgress == <<"I","n","P","r","o","g","r","e","s","s">>

\* The CR createCR builds.  The annotations (operation id, start time) and
\* status.lastChecked hold the time of the call and are left out, with
\* spec.operationID.
createCRObject(r, name, state) ==
    [ name |-> name,
      namespace |-> StrDefault,
      labels |-> [cluster |-> r.ClusterName, resourceGroup |-> r.ResourceGroup,
                  type |-> state.Type, status |-> StrInProgressLabel],
      spec |-> [clusterName |-> r.ClusterName,
                resourceGroup |-> r.ResourceGroup,
                operationType |-> state.Type,
                azureStatus |-> state.Status],
      status |-> [phase |-> StrPhaseInProgress, azureStatus |-> state.Status] ]

SyncOutcome(st, path, err, opName, exists) ==
    [store |-> st, path |-> path, err |-> err, opName |-> opName, exists |-> exists]

createCR(r, st, name, state, exists, f) ==
    LET c == StoreCreate(st, createCRObject(r, name, state), f.create)
    IN IF c.err # "nil"
       THEN SyncOutcome(st, "create-error", "create", name, exists)
       ELSE SyncOutcome(c.store, "create", "nil", name, exists)

deleteCR(st, name, exists, f) ==
    LET d == StoreDelete(st, name, name \in f.del)
    IN IF d.err \notin {"nil", "NotFound"}
       THEN SyncOutcome(st, "delete-error", "delete", name, exists)
       ELSE SyncOutcome(d.store, "delete", "nil", name, exists)

\* syncOperations: query the oracle, generate the name, check whether the CR
\* exists, then create it (in progress, not there) or delete it (not in
\* progress, there).
syncOperations(r, st, orc, f) ==
    IF orc.err
    THEN SyncOutcome(st, "oracle-error", "oracle", Nil, FALSE)
    ELSE LET opName == generateOperationNamePolling(r, orc.state)
             got == StoreGet(st, opName, f.get)
             exists == got = "nil"
         IN IF got = "error"
            THEN SyncOutcome(st, "check-error", "check", opName, exists)
            ELSE IF orc.state.InProgress /\ ~exists
            THEN createCR(r, st, opName, orc.state, exists, f)
            ELSE IF ~orc.state.InProgress /\ exists
            THEN deleteCR(st, opName, exists, f)
            ELSE SyncOutcome(st, "noop", "nil", opName, exists)

\* the clusters the polling reconciler is run against
PollClusters ==
    [getErr : {FALSE},
     Properties : {Some(x) : x \in
                    [ProvisioningState : {Some(StrUpdating), Some(StrSucceeded)},
                     KubernetesVersion : {None, Some(<<"1",".","2","9">>)},
                     AgentPoolProfiles : {Some(<<Some(<<"S","c","a","l","i","n","g">>)>>),
                                          Some(<<Some(StrSucceeded)>>)},
                     AddonProfiles : {None, Some(<<"a">>)}]}]
    \cup {[getErr |-> TRUE, Properties |-> None]}

\* one cycle of the monitoring loop
SyncStep ==
    /\ \E f \in StoreFaults(store) :
          \E orc \in {GetClusterOperationStatus(cluster)} :
             \E out \in {syncOperations(reconciler, store, orc, f)} :
                /\ store' = out.store
                /\ last' = [ran |-> TRUE, req |-> Nil, oracle |-> orc, pre |-> store,
                            faults |-> f, out |-> out]
    /\ UNCHANGED <<reconciler, oracle, cluster, generated, runs, poll, auxVars>>
    /\ UNCHANGED monVars
    /\ UNCHANGED evalVars

(***************************************************************************)
(* OperationReconciler (polling): Start, Stop and the monitoring loop      *)
(***************************************************************************)
MaxRetries == 3

\* the monitoringLoop goroutines started in one behaviour
MaxLoops == 2
\* the ticks one loop takes in one behaviour
MaxCycles == 1

NoCall == [op |-> "none", err |-> "nil", spawned |-> FALSE]

\* NewOperationReconciler: not running, stopCh made and open
NotStartedPoll ==
    [isRunning |-> FALSE, stopClosed |-> FALSE, ctxDone |-> FALSE, panic |-> FALSE,
     loops |-> << >>, lastCall |-> NoCall]

\* monitoringLoop at its start: the initial sync is cycle 0
NewLoop == [pc |-> "sync", attempt |-> 1, cycle |-> 0, errs |-> << >>]

\* validateConnections: one oracle query and one List
validateConnections(c, f) ==
    IF GetClusterOperationStatus(c).err THEN "azure test failed"
    ELSE IF f.list THEN "kubernetes test failed"
    ELSE "nil"

syncWithRetryNext_no_bound(attempt, err) ==
    IF err # "nil" THEN [pc |-> "sync", attempt |-> attempt + 1]
    ELSE [pc |-> "wait", attempt |-> attempt]

\* syncWithRetry after attempt number `attempt` returned err: an error before
\* the last attempt sleeps RetryDelay and tries again, anything else ends
\* the cycle
syncWithRetryNext(attempt, err) ==
    IF err # "nil" /\ attempt < MaxRetries
    THEN [pc |-> "sync", attempt |-> attempt + 1]
    ELSE [pc |-> "wait", attempt |-> attempt]

\* the clusters the loop is run against
LoopClusters ==
    { [getErr |-> TRUE, Properties |-> None],
      [getErr |-> FALSE,
       Properties |-> Some([ProvisioningState |-> Some(StrUpdating),
                            KubernetesVersion |-> Some(<<"1",".","2","9">>),
                            AgentPoolProfiles |-> None, AddonProfiles |-> None])],
      [getErr |-> FALSE,
       Properties |-> Some([ProvisioningState |-> Some(StrSucceeded),
                            KubernetesVersion |-> Some(<<"1",".","2","9">>),
                            AgentPoolProfiles |-> None, AddonProfiles |-> None])] }

\* what the record store does to the calls of one attempt
LoopFaults(st) ==
    {NoFaults, [NoFaults EXCEPT !.create = TRUE]}
    \cup (IF st = {} THEN {} ELSE {[NoFaults EXCEPT !.del = {cr.name : cr \in st}]})

\* Start
Start ==
    /\ ~poll.panic
    /\ \E f \in {NoFaults, [NoFaults EXCEPT !.list = TRUE]} :
          IF poll.isRunning
          THEN poll' = [poll EXCEPT !.lastCall = [op |-> "Start", err |-> "already running",
                                                  spawned |-> FALSE]]
          ELSE IF validateConnections(cluster, f) # "nil"
          THEN poll' = [poll EXCEPT !.lastCall = [op |-> "Start", err |-> "validation failed",
                                                  spawned |-> FALSE]]
          ELSE /\ Len(poll.loops) < MaxLoops
               /\ poll' = [poll EXCEPT !.isRunning = TRUE,
                                       !.loops = Append(@, NewLoop),
                                       !.lastCall = [op |-> "Start", err |-> "nil",
                                                     spawned |-> TRUE]]
    /\ UNCHANGED <<reconciler, oracle, store, last, cluster, generated, runs, auxVars>>
    /\ UNCHANGED monVars
    /\ UNCHANGED evalVars

\* Stop: close(r.stopCh) panics when the channel is closed already
Stop ==
    /\ ~poll.panic
    /\ IF ~poll.isRunning
       THEN poll' = [poll EXCEPT !.lastCall = [op |-> "Stop", err |-> "nil",
                                               spawned |-> FALSE]]
       ELSE IF poll.stopClosed
       THEN poll' = [poll EXCEPT !.panic = TRUE,
                                 !.lastCall = [op |-> "Stop",
                                               err |-> "close of closed channel",
                                               spawned |-> FALSE]]
       ELSE poll' = [poll EXCEPT !.stopClosed = TRUE, !.isRunning = FALSE,
                                 !.lastCall = [op |-> "Stop", err |-> "nil",
                                               spawned |-> FALSE]]
    /\ UNCHANGED <<reconciler, oracle, store, last, cluster, generated, runs, auxVars>>
    /\ UNCHANGED monVars
    /\ UNCHANGED evalVars

\* the context handed to Start is cancelled
ContextCancel ==
    /\ ~poll.panic
    /\ ~poll.ctxDone
    /\ poll' = [poll EXCEPT !.ctxDone = TRUE]
    /\ UNCHANGED <<reconciler, oracle, store, last, cluster, generated, runs, auxVars>>
    /\ UNCHANGED monVars
    /\ UNCHANGED evalVars

\* the oracle query of one attempt: it is made with a context derived from
\* the loop's, so it fails once that context is cancelled
LoopOracle ==
    IF poll.ctxDone THEN [err |-> TRUE, state |-> Nil]
    ELSE GetClusterOperationStatus(cluster)

\* one attempt of syncWithRetry in loop l: syncOperations, then retry or end
\* the cycle
SyncAttempt(l) ==
    /\ ~poll.panic
    /\ poll.loops[l].pc = "sync"
    /\ \E f \in LoopFaults(store) :
          \E out \in {syncOperations(reconciler, store, LoopOracle, f)} :
             LET loop == poll.loops[l]
                 next == syncWithRetryNext(loop.attempt, out.err)
             IN /\ store' = out.store
                /\ poll' = [poll EXCEPT !.loops[l] =
                               [loop EXCEPT !.pc = next.pc, !.attempt = next.attempt,
                                            !.errs = Append(@, out.err)]]
    /\ UNCHANGED <<reconciler, oracle, last, cluster, generated, runs, auxVars>>
    /\ UNCHANGED monVars
    /\ UNCHANGED evalVars

\* select: case <-ticker.C
Tick(l) ==
    /\ ~poll.panic
    /\ poll.loops[l].pc = "wait"
    /\ poll.loops[l].cycle < MaxCycles
    /\ poll' = [poll EXCEPT !.loops[l] =
                   [pc |-> "sync", attempt |-> 1, cycle |-> @.cycle + 1, errs |-> << >>]]
    /\ UNCHANGED <<reconciler, oracle, store, last, cluster, generated, runs, auxVars>>
    /\ UNCHANGED monVars
    /\ UNCHANGED evalVars

\* select: case <-r.stopCh, case <-ctx.Done()
LoopStop(l) ==
    /\ ~poll.panic
    /\ poll.loops[l].pc = "wait"
    /\ poll.stopClosed \/ poll.ctxDone
    /\ poll' = [poll EXCEPT !.loops[l] = [@ EXCEPT !.pc = "stopped", !.errs = << >>]]
    /\ UNCHANGED <<reconciler, oracle, store, last, cluster, generated, runs, auxVars>>
    /\ UNCHANGED monVars
    /\ UNCHANGED evalVars

(***************************************************************************)
(* azure.Client.AbortClusterOperation                                      *)
(***************************************************************************)
\* strings.Contains
Contains(s, sub) ==
    \E k \in 0..(Len(s) - Len(sub)) : \A j \in 1..Len(sub) : s[k + j] = sub[j]

Str409 == <<"4","0","9">>
StrConflict == <<"C","o","n","f","l","i","c","t">>

\* the calls of AbortClusterOperation in one behaviour
MaxAborts == 3

\* What BeginAbortLatestOperation and PollUntilDone may answer.  status is
\* the HTTP status of the answer (0: no answer, the transport failed), text
\* what err.Error() yields for it: the request line, which carries the
\* subscription, resource group and cluster names, and the status line.
RequestLines ==
    { <<"P","O","S","T"," ","/","s","u","b","/","a","1","f","/","r","g","/","t","-","c">>,
      <<"P","O","S","T"," ","/","s","u","b","/","e","4","0","9","/","r","g","/","t","-","c">> }

StatusLine(status) ==
    CASE status = 409 -> <<" ","4","0","9"," ">> \o StrConflict
      [] status = 500 -> <<" ","5","0","0"," ","I","n","t","e","r","n","a","l">>
      [] status = 403 -> <<" ","4","0","3"," ","F","o","r","b","i","d","d","e","n">>
      [] OTHER -> <<" ","d","i","a","l"," ","t","c","p",":"," ","t","i","m","e","o","u","t">>

Accepted == [status |-> 202, text |-> << >>]

AzureAnswers ==
    {Accepted} \cup {[status |-> st, text |-> line \o StatusLine(st)] :
                       st \in {409, 500, 403, 0}, line \in RequestLines}

AbortReasons == {<<"c","r","a","s","h">>, <<"n","o","d","e","s">>}

\* AbortClusterOperation: begin is the answer to BeginAbortLatestOperation,
\* done the answer PollUntilDone ends with
AbortClusterOperation(begin, done) ==
    IF begin.status # 202
    THEN IF Contains(begin.text, Str409) \/ Contains(begin.text, StrConflict)
         THEN [err |-> "operation completed before abort could take effect",
               wrapped |-> begin.text, begins |-> 1, polled |-> FALSE]
         ELSE [err |-> "failed to initiate abort operation", wrapped |-> begin.text,
               begins |-> 1, polled |-> FALSE]
    ELSE IF done.status # 202
    THEN [err |-> "abort operation failed", wrapped |-> done.text,
          begins |-> 1, polled |-> TRUE]
    ELSE [err |-> "nil", wrapped |-> << >>, begins |-> 1, polled |-> TRUE]

NotAborted == [n |-> 0, reason |-> << >>, begin |-> Accepted, done |-> Accepted,
               out |-> [err |-> "none", wrapped |-> << >>, begins |-> 0, polled |-> FALSE]]

\* one call of AbortClusterOperation
AbortCall ==
    /\ azure.n < MaxAborts
    /\ \E reason \in AbortReasons, begin \in AzureAnswers, done \in AzureAnswers :
          azure' = [n |-> azure.n + 1, reason |-> reason, begin |-> begin,
                    done |-> IF begin.status = 202 THEN done ELSE Accepted,
                    out |-> AbortClusterOperation(begin, done)]
    /\ UNCHANGED <<reconciler, oracle, store, last, cluster, generated, runs, poll,
                   metricsCM, health>>
    /\ UNCHANGED monVars
    /\ UNCHANGED evalVars

(***************************************************************************)
(* The metric collector: updateMetricsConfigMap                            *)
(***************************************************************************)
MaxHistoryEntries == 100

\* successful updates, failed updates and edits by others in one behaviour
MaxCollections == 102
MaxFailed == 1
MaxEdits == 1

\* A value of ConfigMap.Data: the text of a JSON array, of a JSON object,
\* the empty string, or text that is not the JSON of a []MetricsData.
EmptyText == [t |-> "empty", items |-> << >>]
Garbage == [t |-> "garbage", items |-> << >>]

\* json.MarshalIndent of a []MetricsData and of one MetricsData
MarshalHistory(h) == [t |-> "array", items |-> h]
MarshalMetrics(m) == [t |-> "object", items |-> <<m>>]

\* json.Unmarshal into a []MetricsData
UnmarshalHistory(text) ==
    IF text.t = "array" THEN [err |-> FALSE, v |-> text.items]
    ELSE [err |-> TRUE, v |-> << >>]

\* MarshalIndent fails on a float that is NaN or infinite (a percentage
\* computed with a zero total)
Marshalable(m) == m.finite

\* the collection that follows k stored ones
MetricsData(k, finite) == [Timestamp |-> k + 1, finite |-> finite]

TrimHistory_keeps_first(h) ==
    IF Len(h) > MaxHistoryEntries THEN SubSeq(h, 1, MaxHistoryEntries) ELSE h

\* keep only the last MaxHistoryEntries entries
TrimHistory(h) ==
    IF Len(h) > MaxHistoryEntries
    THEN SubSeq(h, Len(h) - MaxHistoryEntries + 1, Len(h))
    ELSE h

NoData == [history |-> None, current |-> None, total |-> None]

\* what the API server does to the calls of one update
CollectorFaults ==
    [get : BOOLEAN, create : BOOLEAN, update : BOOLEAN]

\* updateMetricsConfigMap: cm is the ConfigMap in the cluster.  createOnMiss
\* tells the two versions apart: one returns the error of Get, the other
\* creates an empty ConfigMap after any Get error and goes on with it.
updateMetricsConfigMap(cm, newMetrics, f, createOnMiss) ==
    LET getFails == f.get \/ ~cm.exists
        createFails == f.create \/ cm.exists
        created == [exists |-> TRUE, data |-> NoData]
        cluster1 == IF getFails THEN created ELSE cm
        local == IF getFails THEN NoData ELSE cm.data
        parsed == IF local.history.set /\ local.history.v # EmptyText
                  THEN UnmarshalHistory(local.history.v).v
                  ELSE << >>
        metricsHistory == TrimHistory(Append(parsed, newMetrics))
    IN IF getFails /\ ~createOnMiss THEN [err |-> "get", cm |-> cm]
       ELSE IF getFails /\ createFails THEN [err |-> "create", cm |-> cm]
       ELSE IF ~Marshalable(newMetrics) THEN [err |-> "marshal", cm |-> cluster1]
       ELSE IF f.update THEN [err |-> "update", cm |-> cluster1]
       ELSE [err |-> "nil",
             cm |-> [exists |-> TRUE,
                     data |-> [history |-> Some(MarshalHistory(metricsHistory)),
                               current |-> Some(MarshalMetrics(newMetrics)),
                               total |-> Some(Itoa(Len(metricsHistory)))]]]

\* the ConfigMap is not there; stored, failed and edits count the updates
\* that stored their collection, those that did not and the edits by others,
\* writer says who wrote the ConfigMap's data last
NoMetricsCM ==
    [exists |-> FALSE, data |-> NoData, createOnMiss |-> TRUE,
     stored |-> 0, failed |-> 0, edits |-> 0, writer |-> "none"]

\* one collection cycle's updateMetricsConfigMap
Collect ==
    /\ metricsCM.stored < MaxCollections
    /\ \E f \in CollectorFaults, finite \in BOOLEAN :
          LET out == updateMetricsConfigMap(metricsCM, MetricsData(metricsCM.stored, finite),
                                            f, metricsCM.createOnMiss)
          IN IF out.err = "nil"
             THEN metricsCM' = [metricsCM EXCEPT !.exists = out.cm.exists,
                                                  !.data = out.cm.data,
                                                  !.stored = @ + 1,
                                                  !.writer = "collector"]
             ELSE /\ metricsCM.failed < MaxFailed
                  /\ metricsCM' = [metricsCM EXCEPT !.exists = out.cm.exists,
                                                     !.data = out.cm.data,
                                                     !.failed = @ + 1]
    /\ UNCHANGED <<reconciler, oracle, store, last, cluster, generated, runs, poll,
                   azure, health>>
    /\ UNCHANGED monVars
    /\ UNCHANGED evalVars

\* someone else rewrites metrics_history.json
ExternalEdit ==
    /\ metricsCM.exists
    /\ metricsCM.edits < MaxEdits
    /\ \E text \in {EmptyText, Garbage} :
          metricsCM' = [metricsCM EXCEPT !.data.history = Some(text),
                                         !.edits = @ + 1,
                                         !.writer = "other"]
    /\ UNCHANGED <<reconciler, oracle, store, last, cluster, generated, runs, poll,
                   azure, health>>
    /\ UNCHANGED monVars
    /\ UNCHANGED evalVars

(***************************************************************************)
(* The metric collector: CollectServiceHealth                              *)
(***************************************************************************)
\* http.Client.Timeout, in seconds
ClientTimeout == 10

\* the calls of CollectServiceHealth in one behaviour
MaxHealthChecks == 2

StrNoHealthURL ==
    <<"N","o"," ","h","e","a","l","t","h"," ","U","R","L"," ",
      "c","o","n","f","i","g","u","r","e","d">>
StrRequestFailed == <<"R","e","q","u","e","s","t"," ","f","a","i","l","e","d">>
StrHTTP == <<"H","T","T","P"," ">>

\* CUSTOMER_HEALTH_URL
HealthURLs == {<< >>, <<"h","t","t","p",":","/","/","s","v","c">>}

\* What the endpoint does with the request: it refuses the connection, or
\* answers with a status code after delay seconds.
Endpoints ==
    {[refused |-> TRUE, status |-> 0, delay |-> 0]}
    \cup [refused : {FALSE}, status : {200, 204, 301, 399, 400, 404, 500},
          delay : {0, 3, 6, 12}]

\* CollectServiceHealth (URL, Healthy, ErrorMessage; Timestamp and
\* ResponseTime hold the time of the call)
CollectServiceHealth(healthURL, endpoint) ==
    IF healthURL = << >>
    THEN [URL |-> healthURL, Healthy |-> TRUE, ErrorMessage |-> StrNoHealthURL]
    ELSE IF endpoint.refused \/ endpoint.delay > ClientTimeout
    THEN [URL |-> healthURL, Healthy |-> FALSE, ErrorMessage |-> StrRequestFailed]
    ELSE IF endpoint.status >= 200 /\ endpoint.status < 400
    THEN [URL |-> healthURL, Healthy |-> TRUE, ErrorMessage |-> << >>]
    ELSE [URL |-> healthURL, Healthy |-> FALSE,
          ErrorMessage |-> StrHTTP \o Itoa(endpoint.status)]

NotCollected ==
    [n |-> 0, url |-> << >>, endpoint |-> [refused |-> TRUE, status |-> 0, delay |-> 0],
     out |-> [URL |-> << >>, Healthy |-> FALSE, ErrorMessage |-> << >>]]

\* one call of CollectServiceHealth
CollectHealth ==
    /\ health.n < MaxHealthChecks
    /\ \E url \in HealthURLs, endpoint \in Endpoints :
          health' = [n |-> health.n + 1, url |-> url, endpoint |-> endpoint,
                     out |-> CollectServiceHealth(url, endpoint)]
    /\ UNCHANGED <<reconciler, oracle, store, last, cluster, generated, runs, poll,
                   azure, metricsCM>>
    /\ UNCHANGED monVars
    /\ UNCHANGED evalVars


(***************************************************************************)
(* Specifications                                                          *)
(***************************************************************************)
NoCluster == [getErr |-> TRUE, Properties |-> [set |-> FALSE, v |-> << >>]]

NoEvent == [h |-> "none", name |-> "", known |-> FALSE]

\* The health controller after StartHealthMonitoring, no CR observed yet
InitMonitorIdle ==
    /\ operationMonitors = << >>
    /\ closed = {}
    /\ metricsUpdated = 0
    /\ mon = << >>
    /\ cmEvents = 0
    /\ sent = 0
    /\ abortLog = << >>
    /\ panicked = NoPanic
    /\ lastEvent = NoEvent
    /\ burst = 0

InitReconcile ==
    /\ reconciler \in Reconcilers
    /\ oracle \in OracleResults
    /\ store = {}
    /\ last = NoRun
    /\ generated = NotGenerated
    /\ runs = NoRuns
    /\ poll = NotStartedPoll
    /\ azure = NotAborted
    /\ metricsCM = NoMetricsCM
    /\ health = NotCollected
    /\ cluster = NoCluster
    /\ InitMonitorIdle
    /\ snapshot = SnapHealthy
    /\ thresholds = StandardThresholds
    /\ evaluated = NotEvaluated

InitMonitor ==
    /\ reconciler = [ClusterName |-> <<"t","-","c">>, ResourceGroup |-> <<"r","g">>]
    /\ oracle = [err |-> TRUE, state |-> Nil]
    /\ store = {}
    /\ last = NoRun
    /\ generated = NotGenerated
    /\ runs = NoRuns
    /\ poll = NotStartedPoll
    /\ azure = NotAborted
    /\ metricsCM = NoMetricsCM
    /\ health = NotCollected
    /\ cluster = NoCluster
    /\ InitMonitorIdle
    /\ snapshot \in Snapshots
    /\ thresholds \in ThresholdConfigs
    /\ evaluated = NotEvaluated

InitEvaluate ==
    /\ reconciler = [ClusterName |-> <<"t","-","c">>, ResourceGroup |-> <<"r","g">>]
    /\ oracle = [err |-> TRUE, state |-> Nil]
    /\ store = {}
    /\ last = NoRun
    /\ generated = NotGenerated
    /\ runs = NoRuns
    /\ poll = NotStartedPoll
    /\ azure = NotAborted
    /\ metricsCM = NoMetricsCM
    /\ health = NotCollected
    /\ cluster = NoCluster
    /\ InitMonitorIdle
    /\ snapshot \in EvalSnapshots
    /\ thresholds \in EvalThresholdConfigs
    /\ evaluated = NotEvaluated

InitMonitorScenarios ==
    /\ reconciler = [ClusterName |-> <<"t","-","c">>, ResourceGroup |-> <<"r","g">>]
    /\ oracle = [err |-> TRUE, state |-> Nil]
    /\ store = {}
    /\ last = NoRun
    /\ generated = NotGenerated
    /\ runs = NoRuns
    /\ poll = NotStartedPoll
    /\ azure = NotAborted
    /\ metricsCM = NoMetricsCM
    /\ health = NotCollected
    /\ cluster = NoCluster
    /\ InitMonitorIdle
    /\ snapshot \in InitialScenarioSnapshots
    /\ thresholds \in ScenarioThresholds
    /\ evaluated = NotEvaluated

InitOracle ==
    /\ reconciler = [ClusterName |-> <<"t","-","c">>, ResourceGroup |-> <<"r","g">>]
    /\ cluster \in Clusters
    /\ oracle = NotQueried
    /\ store = {}
    /\ last = NoRun
    /\ generated = NotGenerated
    /\ runs = NoRuns
    /\ poll = NotStartedPoll
    /\ azure = NotAborted
    /\ metricsCM = NoMetricsCM
    /\ health = NotCollected
    /\ InitMonitorIdle
    /\ snapshot = SnapHealthy
    /\ thresholds = StandardThresholds
    /\ evaluated = NotEvaluated

InitNames ==
    /\ reconciler \in [ClusterName : ClusterNames, ResourceGroup : {<<"r","g">>}]
    /\ oracle \in [err : {FALSE}, state : NameStates]
    /\ store = {}
    /\ last = NoRun
    /\ generated = NotGenerated
    /\ runs = NoRuns
    /\ poll = NotStartedPoll
    /\ azure = NotAborted
    /\ metricsCM = NoMetricsCM
    /\ health = NotCollected
    /\ cluster = NoCluster
    /\ InitMonitorIdle
    /\ snapshot = SnapHealthy
    /\ thresholds = StandardThresholds
    /\ evaluated = NotEvaluated

InitCleanup ==
    /\ reconciler \in Reconcilers
    /\ oracle \in OracleResults
    /\ store \in SUBSET {RecordOf(reconciler), RecordOf(OtherReconciler)}
    /\ last = NoRun
    /\ generated = NotGenerated
    /\ runs = NoRuns
    /\ poll = NotStartedPoll
    /\ azure = NotAborted
    /\ metricsCM = NoMetricsCM
    /\ health = NotCollected
    /\ cluster = NoCluster
    /\ InitMonitorIdle
    /\ snapshot = SnapHealthy
    /\ thresholds = StandardThresholds
    /\ evaluated = NotEvaluated

InitPolling ==
    /\ reconciler \in Reconcilers
    /\ cluster \in PollClusters
    /\ oracle = NotQueried
    /\ store = {}
    /\ last = NoRun
    /\ generated = NotGenerated
    /\ runs = NoRuns
    /\ poll = NotStartedPoll
    /\ azure = NotAborted
    /\ metricsCM = NoMetricsCM
    /\ health = NotCollected
    /\ InitMonitorIdle
    /\ snapshot = SnapHealthy
    /\ thresholds = StandardThresholds
    /\ evaluated = NotEvaluated

InitPollLoop ==
    /\ reconciler = [ClusterName |-> <<"t","-","c">>, ResourceGroup |-> <<"r","g">>]
    /\ cluster \in LoopClusters
    /\ oracle = NotQueried
    /\ store = {}
    /\ last = NoRun
    /\ generated = NotGenerated
    /\ runs = NoRuns
    /\ poll = NotStartedPoll
    /\ azure = NotAborted
    /\ metricsCM = NoMetricsCM
    /\ health = NotCollected
    /\ InitMonitorIdle
    /\ snapshot = SnapHealthy
    /\ thresholds = StandardThresholds
    /\ evaluated = NotEvaluated

InitConcurrent ==
    /\ reconciler \in Reconcilers
    /\ oracle \in OracleResults
    /\ store = {}
    /\ last = NoRun
    /\ generated = NotGenerated
    /\ runs = NoRuns
    /\ poll = NotStartedPoll
    /\ azure = NotAborted
    /\ metricsCM = NoMetricsCM
    /\ health = NotCollected
    /\ cluster = NoCluster
    /\ InitMonitorIdle
    /\ snapshot = SnapHealthy
    /\ thresholds = StandardThresholds
    /\ evaluated = NotEvaluated

NextReconcile ==
    \/ OracleChange
    \/ ReconcileStep

NextMonitor ==
    \/ \E name \in CRNames : AddFunc(name)
    \/ \E name \in CRNames : DeleteFunc(name)
    \/ \E s \in Snapshots : MetricsStoreWrite(s)
    \/ UpdateFunc
    \/ \E i \in DOMAIN mon : Check(i)
    \/ \E i \in DOMAIN mon, err \in AbortErrors : AbortReturn(i, err)
    \/ \E i \in DOMAIN mon : SelectStop(i)
    \/ \E i \in DOMAIN mon : SelectUpdate(i)

NextEvaluate ==
    \/ \E s \in EvalSnapshots : LoadSnapshot(s)
    \/ \E t \in EvalThresholdConfigs : LoadThresholds(t)
    \/ EvaluateStep

NextMonitorScenarios ==
    \/ \E name \in CRNames : AddFunc(name)
    \/ \E name \in CRNames : DeleteFunc(name)
    \/ \E s \in ScenarioSnapshots : MetricsStoreWrite(s)
    \/ UpdateFunc
    \/ \E i \in DOMAIN mon : Check(i)
    \/ \E i \in DOMAIN mon, err \in AbortErrors : AbortReturn(i, err)
    \/ \E i \in DOMAIN mon : SelectStop(i)
    \/ \E i \in DOMAIN mon : SelectUpdate(i)

NextOracle ==
    \/ \E c \in Clusters : ClusterChange(c)
    \/ QueryOracle

NextNames == GenerateNames

SpecNames == InitNames /\ [][NextNames]_vars

NextConcurrent ==
    \/ OracleChange
    \/ \E k \in 1..MaxRuns : ReconcileRead(k)
    \/ \E k \in 1..MaxRuns : ReconcileWrite(k)

SpecConcurrent == InitConcurrent /\ [][NextConcurrent]_vars

NextCleanup ==
    \/ OracleChange
    \/ ReconcileStep
    \/ CleanupStep

SpecCleanup == InitCleanup /\ [][NextCleanup]_vars

NextPolling ==
    \/ \E c \in PollClusters : ClusterChange(c)
    \/ SyncStep

SpecPolling == InitPolling /\ [][NextPolling]_vars

InitClassify ==
    /\ reconciler = [ClusterName |-> <<"t","-","c">>, ResourceGroup |-> <<"r","g">>]
    /\ cluster \in VersionedClusters
    /\ oracle = NotQueried
    /\ store = {}
    /\ last = NoRun
    /\ generated = NotGenerated
    /\ runs = NoRuns
    /\ poll = NotStartedPoll
    /\ azure = NotAborted
    /\ metricsCM = NoMetricsCM
    /\ health = NotCollected
    /\ InitMonitorIdle
    /\ snapshot = SnapHealthy
    /\ thresholds = StandardThresholds
    /\ evaluated = NotEvaluated

NextClassify ==
    \/ \E c \in VersionedClusters : ClusterChange(c)
    \/ QueryOracle

SpecClassify == InitClassify /\ [][NextClassify]_vars

InitCollector ==
    /\ reconciler = [ClusterName |-> <<"t","-","c">>, ResourceGroup |-> <<"r","g">>]
    /\ cluster \in LoopClusters
    /\ oracle = NotQueried
    /\ store = {}
    /\ last = NoRun
    /\ generated = NotGenerated
    /\ runs = NoRuns
    /\ poll = NotStartedPoll
    /\ azure = NotAborted
    /\ metricsCM \in {[NoMetricsCM EXCEPT !.exists = e, !.createOnMiss = c] :
                        e \in BOOLEAN, c \in BOOLEAN}
    /\ health = NotCollected
    /\ InitMonitorIdle
    /\ snapshot = SnapHealthy
    /\ thresholds = StandardThresholds
    /\ evaluated = NotEvaluated

NextCollector ==
    \/ Collect
    \/ ExternalEdit

SpecCollector == InitCollector /\ [][NextCollector]_vars

InitHealth ==
    /\ reconciler = [ClusterName |-> <<"t","-","c">>, ResourceGroup |-> <<"r","g">>]
    /\ cluster \in LoopClusters
    /\ oracle = NotQueried
    /\ store = {}
    /\ last = NoRun
    /\ generated = NotGenerated
    /\ runs = NoRuns
    /\ poll = NotStartedPoll
    /\ azure = NotAborted
    /\ metricsCM = NoMetricsCM
    /\ health = NotCollected
    /\ InitMonitorIdle
    /\ snapshot = SnapHealthy
    /\ thresholds = StandardThresholds
    /\ evaluated = NotEvaluated

NextHealth == CollectHealth

SpecHealth == InitHealth /\ [][NextHealth]_vars

InitAbort ==
    /\ reconciler = [ClusterName |-> <<"t","-","c">>, ResourceGroup |-> <<"r","g">>]
    /\ cluster \in LoopClusters
    /\ oracle = NotQueried
    /\ store = {}
    /\ last = NoRun
    /\ generated = NotGenerated
    /\ runs = NoRuns
    /\ poll = NotStartedPoll
    /\ azure = NotAborted
    /\ metricsCM = NoMetricsCM
    /\ health = NotCollected
    /\ InitMonitorIdle
    /\ snapshot = SnapHealthy
    /\ thresholds = StandardThresholds
    /\ evaluated = NotEvaluated

NextAbort == AbortCall

SpecAbort == InitAbort /\ [][NextAbort]_vars

NextPollLoop ==
    \/ \E c \in LoopClusters : ClusterChange(c)
    \/ Start
    \/ Stop
    \/ ContextCancel
    \/ \E l \in DOMAIN poll.loops : SyncAttempt(l)
    \/ \E l \in DOMAIN poll.loops : Tick(l)
    \/ \E l \in DOMAIN poll.loops : LoopStop(l)

SpecPollLoop == InitPollLoop /\ [][NextPollLoop]_vars

SpecReconcile == InitReconcile /\ [][NextReconcile]_vars

SpecMonitor == InitMonitor /\ [][NextMonitor]_vars

\* The Go scheduler runs every runnable goroutine, the ConfigMap reads and
\* the abort call return, and a select whose stop channel is closed takes
\* that case once no update signal is left to compete with it.
MonitorFairness ==
    \A i \in 1..MaxMonitors :
        /\ WF_vars(i \in DOMAIN mon /\ Check(i))
        /\ WF_vars(i \in DOMAIN mon /\ \E err \in AbortErrors : AbortReturn(i, err))
        /\ WF_vars(i \in DOMAIN mon /\ SelectStop(i))

SpecEvaluate == InitEvaluate /\ [][NextEvaluate]_vars

SpecMonitorScenarios == InitMonitorScenarios /\ [][NextMonitorScenarios]_vars

SpecOracle == InitOracle /\ [][NextOracle]_vars

SpecMonitorLive == InitMonitor /\ [][NextMonitor]_vars /\ MonitorFairness

\* The informer delivers every metrics-store update it has, and a monitor
\* blocked in its select receives from metricsUpdated when a signal stays
\* there for it.
SignalFairness ==
    /\ WF_vars(UpdateFunc)
    /\ \A i \in 1..MaxMonitors : WF_vars(i \in DOMAIN mon /\ SelectUpdate(i))

SpecMonitorSignals ==
    InitMonitor /\ [][NextMonitor]_vars /\ MonitorFairness /\ SignalFairness

\* The monitors' own steps are taken, but nothing makes AbortClusterOperation
\* return: abort calls it with context.Background(), so the call ends only
\* when Azure answers.
HungCallFairness ==
    \A i \in 1..MaxMonitors :
        /\ WF_vars(i \in DOMAIN mon /\ Check(i))
        /\ WF_vars(i \in DOMAIN mon /\ SelectStop(i))

SpecMonitorHung == InitMonitor /\ [][NextMonitor]_vars /\ HungCallFairness


(***************************************************************************)
(* Claims about Reconcile (checked under SpecReconcile)                    *)
(***************************************************************************)
RanOn(inProgress) ==
    /\ last.ran
    /\ ~last.oracle.err
    /\ last.oracle.state.InProgress = inProgress

RecordsNamed(st, name) == {cr \in st : cr.name = name}

\* What C1 asks of a run: no error, and exactly one record under the
\* generated name, carrying the oracle's status string and the cluster name.
CreatedAsClaimed ==
    /\ last.out.err = "nil"
    /\ Cardinality(RecordsNamed(store, last.out.opName)) = 1
    /\ \A cr \in RecordsNamed(store, last.out.opName) :
          /\ cr.spec.operationStatus = last.oracle.state.Status
          /\ cr.spec.clusterName = reconciler.ClusterName

C2_NoOpWhenNotInProgress ==
    /\ (RanOn(FALSE) /\ RecordsNamed(last.pre, last.out.opName) = {})
          => /\ last.out.err = "nil"
             /\ store \subseteq last.pre
             /\ RecordsNamed(store, last.out.opName) = {}
    /\ (RanOn(FALSE) /\ last.pre = {})
          => (last.out.err = "nil" /\ store = {})

C2_Witness ==
    /\ RanOn(FALSE)
    /\ last.pre = {}
    /\ last.out.path = "noop"
    /\ store = {}

\* C3: at most one record exists under any generated name however often
\* Reconcile has run, and a run on an in-progress status that finds the
\* record present returns no error and leaves the store as it was.
C3_IdempotentWhenInProgress ==
    /\ \A a \in store, b \in store : a.name = b.name => a = b
    /\ (RanOn(TRUE) /\ last.out.exists)
          => /\ last.out.err = "nil"
             /\ store = last.pre
             /\ Cardinality(RecordsNamed(store, last.out.opName)) = 1

C3_Witness ==
    /\ RanOn(TRUE)
    /\ last.out.exists
    /\ last.out.path = "exists"
    /\ Cardinality(RecordsNamed(store, last.out.opName)) = 1

C5_OracleErrorNoMutation ==
    (last.ran /\ last.oracle.err)
        => /\ last.out.err = "oracle"
           /\ last.out.result.RequeueAfter = 30
           /\ last.out.path = "oracle-error"
           /\ store = last.pre

C5_Witness ==
    /\ last.ran
    /\ last.oracle.err
    /\ last.pre # {}
    /\ store = last.pre

ReconcilePaths ==
    {"create", "exists", "delete", "noop", "oracle-error", "create-error", "delete-error"}

\* C6: every outcome of Reconcile (create, already exists, delete, no-op,
\* oracle error, store create or delete error) carries RequeueAfter = 30 s.
C6_AlwaysRequeue ==
    last.ran => /\ last.out.path \in ReconcilePaths
                /\ last.out.result.RequeueAfter = 30

C6_Witness ==
    /\ last.ran
    /\ last.out.path = "delete-error"
    /\ last.out.err = "delete"
    /\ last.out.result.RequeueAfter = 30

(***************************************************************************)
(* Claims about the health monitors (checked under SpecMonitor)            *)
(***************************************************************************)
\* the monitors of a name whose stop channel has not been closed
Uncancelled(n) == {i \in DOMAIN mon : mon[i].name = n /\ mon[i].stop \notin closed}

\* C7: after a create-observation for a name that already has a registered
\* monitor (none deleted in between) there is exactly one monitor for the
\* name: the callback started none, the registered stop channel is the one
\* that monitor was started with, and the callback did not panic.
C7_DuplicateCreateIgnored ==
    (lastEvent.h = "AddFunc" /\ lastEvent.known)
        => /\ lastEvent.name \in DOMAIN operationMonitors
           /\ Cardinality(Uncancelled(lastEvent.name)) = 1
           /\ \A i \in Uncancelled(lastEvent.name) :
                 mon[i].stop = operationMonitors[lastEvent.name]
           /\ panicked # "close of closed channel"

C7_Witness ==
    /\ lastEvent.h = "AddFunc"
    /\ lastEvent.known
    /\ Cardinality(Uncancelled(lastEvent.name)) = 1
    /\ Len(mon) = 1

\* a monitor that is evaluating, aborting, or waiting without having been
\* cancelled
Active(i) ==
    \/ mon[i].pc \in {"check", "abort"}
    \/ mon[i].pc = "select" /\ mon[i].stop \notin closed

\* C8: in every reachable state there is at most one active monitor task
\* per operation name.
C8_AtMostOneActiveMonitor ==
    \A n \in CRNames :
        Cardinality({i \in DOMAIN mon : mon[i].name = n /\ Active(i)}) <= 1

AbortsBy(i) == {k \in DOMAIN abortLog : abortLog[k].by = i}

\* C9: a monitor calls the abort gateway at most once, on an evaluation
\* that found at least one violation; it has then reported every violation
\* of that evaluation, makes no evaluation after it, and is inside abort()
\* or has returned.
C9_AbortOnceThenTerminate ==
    \A i \in DOMAIN mon :
        /\ mon[i].aborts = Cardinality(AbortsBy(i))
        /\ mon[i].aborts <= 1
        /\ \A k \in AbortsBy(i) :
              /\ Len(abortLog[k].violations) >= 1
              /\ mon[i].reported = abortLog[k].violations
              /\ abortLog[k].reason =
                    StrReasonPrefix \o Itoa(Len(abortLog[k].violations))
              /\ mon[i].evals = abortLog[k].evals
              /\ mon[i].pc \in {"abort", "done"}

\* a monitor that evaluated a healthy snapshot first, then one with several
\* violations, aborted (the call failed) and returned
C9_Witness ==
    \E i \in DOMAIN mon :
        /\ mon[i].aborts = 1
        /\ mon[i].evals = 2
        /\ Len(mon[i].reported) = 3
        /\ mon[i].abortErr = "failed"
        /\ mon[i].pc = "done"

\* C10: a monitor evaluates before it waits on anything: one that has not
\* evaluated yet is at its initial check and has received no signal, every
\* later evaluation follows one received update signal, and an abort on
\* the initial evaluation was issued with no update signal received.
C10_ImmediateEvaluation ==
    /\ \A i \in DOMAIN mon :
          /\ mon[i].evals = 0 => (mon[i].pc = "check" /\ mon[i].consumed = 0)
          /\ mon[i].consumed <= mon[i].evals
          /\ mon[i].evals <= mon[i].consumed + 1
    /\ \A k \in DOMAIN abortLog :
          abortLog[k].evals = 1 => mon[abortLog[k].by].consumed = 0

\* an abort has been issued although metrics-store was never updated
C10_Witness ==
    /\ sent = 0
    /\ metricsUpdated = 0
    /\ \E k \in DOMAIN abortLog : abortLog[k].evals = 1


\* DeleteFunc has run for the record of monitor i: its stop channel is no
\* longer the one registered under its name
Cancelled(i) ==
    /\ i \in DOMAIN mon
    /\ ~(/\ mon[i].name \in DOMAIN operationMonitors
         /\ operationMonitors[mon[i].name] = mon[i].stop)

\* monitor i has returned, or the process has ended in a panic
Returned(i) == i \in DOMAIN mon /\ (mon[i].pc = "done" \/ panicked # NoPanic)

\* C11: once the deletion of a monitor's record has been observed the
\* monitor eventually returns, or the process has ended in a panic; and a
\* monitor that has found no violation has made no abort call.
C11_SilentTermination ==
    /\ [](\A i \in DOMAIN mon : mon[i].reported = << >> => AbortsBy(i) = {})
    /\ \A i \in 1..MaxMonitors :
          Cancelled(i) ~> Returned(i)

\* a cancelled monitor that evaluated twice, found nothing and returned
C11_Witness ==
    \E i \in DOMAIN mon :
        /\ Cancelled(i)
        /\ mon[i].pc = "done"
        /\ mon[i].evals = 2
        /\ mon[i].reported = << >>
        /\ AbortsBy(i) = {}
        /\ panicked = NoPanic


\* C12: at most one wake-up is pending in every reachable state, and the
\* producer's delivery is never blocked: whenever a metrics-store update is
\* to be delivered UpdateFunc can run, whether or not a signal is pending
\* or any monitor exists.
C12_CoalescingSignal ==
    /\ metricsUpdated \in 0..1
    /\ (cmEvents > 0 /\ panicked = NoPanic) => ENABLED UpdateFunc

\* two updates were delivered with no monitor to receive them: one is pending
C12_Witness ==
    /\ mon = << >>
    /\ sent = 2
    /\ cmEvents = 0
    /\ metricsUpdated = 1


\* C13: N >= 1 update signals delivered before a monitor wakes leave exactly
\* one wake-up pending, so the monitor that receives it makes exactly one
\* re-evaluation for all N; that re-evaluation reads metrics-store as it is
\* then, never a write older than the last one signalled.
C13_OneReevaluationOnLatest ==
    /\ (burst >= 1) <=> (metricsUpdated = 1)
    /\ \A i \in DOMAIN mon :
          mon[i].consumed >= 1 =>
             /\ mon[i].woke >= 1
             /\ mon[i].evals = IF mon[i].pc = "check" THEN mon[i].consumed
                                                      ELSE mon[i].consumed + 1
             /\ mon[i].pc # "check" => mon[i].read >= mon[i].wokeAt

\* two signals were delivered before the monitor woke: it woke once,
\* re-evaluated once and read the second write
C13_Witness ==
    \E i \in DOMAIN mon :
        /\ mon[i].woke = 2
        /\ mon[i].consumed = 1
        /\ mon[i].evals = 2
        /\ mon[i].read = 2
        /\ mon[i].pc = "select"
        /\ metricsUpdated = 0


(***************************************************************************)
(* Claims about the threshold evaluator (checked under SpecEvaluate)       *)
(***************************************************************************)
\* the last evaluation ran all checks and returned its list of violations
EvaluatedOk == evaluated.n >= 1 /\ evaluated.out.kind = "ok"

ViolationsOf(metric) ==
    {j \in DOMAIN evaluated.out.violations : evaluated.out.violations[j].Metric = metric}

ThresholdsMap == Section(thresholds.parsed, "thresholds")

\* C14: for every threshold key and every value of its field, the evaluation
\* emits a violation for the key iff the key is configured and the field's
\* number is greater than or equal to the threshold (equal: violation; one
\* below: none; key absent: none), and the violation carries both numbers.
C14_InclusiveThreshold ==
    EvaluatedOk =>
        \A j \in DOMAIN MetricFields :
            LET m == MetricFields[j]
                sec == Section(snapshot.parsed, m.section)
                at == /\ m.key \in DOMAIN ThresholdsMap.kv
                      /\ m.field \in DOMAIN sec.kv
                      /\ sec.kv[m.field].t = "num"
                      /\ sec.kv[m.field].v >= ThresholdsMap.kv[m.key].v
            IN /\ Cardinality(ViolationsOf(m.key)) = IF at THEN 1 ELSE 0
               /\ \A k \in ViolationsOf(m.key) :
                     /\ evaluated.out.violations[k].Current = sec.kv[m.field].v
                     /\ evaluated.out.violations[k].Threshold = ThresholdsMap.kv[m.key].v

\* memory usage exactly at its threshold is the one violation reported
C14_Witness ==
    /\ EvaluatedOk
    /\ thresholds = StandardThresholds
    /\ snapshot.parsed.resource_usage.kv["memory_usage_percent"] = Num(90)
    /\ Len(evaluated.out.violations) = 1
    /\ evaluated.out.violations[1].Metric = "memory_usage_percent"
    /\ evaluated.out.violations[1].Current = evaluated.out.violations[1].Threshold


\* the place of a violation's category in the order service-health, node,
\* container, pod, resource-usage
CategoryRank(metric) ==
    CASE metric = "service_health" -> 1
      [] metric = "not_ready_nodes_percent" -> 2
      [] metric = "crash_loop_percent" -> 3
      [] metric \in {"crashing_pods_percent", "restart_percent", "restart_count",
                     "pending_pods_percent"} -> 4
      [] metric \in {"cpu_usage_percent", "memory_usage_percent"} -> 5

\* C17: in every list of violations returned, no violation of a later
\* category (service-health, node, container, pod, resource-usage) comes
\* before one of an earlier category.
C17_FixedCategoryOrder ==
    EvaluatedOk =>
        \A a \in DOMAIN evaluated.out.violations, b \in DOMAIN evaluated.out.violations :
            a < b => CategoryRank(evaluated.out.violations[a].Metric)
                       <= CategoryRank(evaluated.out.violations[b].Metric)

\* every check fails: nine violations, one or more of each category
C17_Witness ==
    /\ EvaluatedOk
    /\ snapshot = SnapAllBad
    /\ thresholds = StandardThresholds
    /\ Len(evaluated.out.violations) = 9
    /\ {CategoryRank(evaluated.out.violations[j].Metric) :
            j \in DOMAIN evaluated.out.violations} = 1..5

HealthyField ==
    LET sec == Section(snapshot.parsed, "serviceHealth")
    IN IF "healthy" \in DOMAIN sec.kv THEN sec.kv["healthy"] ELSE Nil

\* C15: whatever the thresholds map holds (nothing, no service_health key, a
\* service_health key), an evaluation of a snapshot with serviceHealth
\* healthy=false returns exactly one service_health violation, first in the
\* list, and an evaluation of one with healthy=true returns none.
C15_ServiceHealthSpecialCase ==
    EvaluatedOk =>
        /\ HealthyField = Bool(FALSE) =>
              /\ Cardinality(ViolationsOf("service_health")) = 1
              /\ evaluated.out.violations[1] =
                    [Metric |-> "service_health", Current |-> 0, Threshold |-> 1,
                     Reason |-> "service_health_false"]
        /\ HealthyField = Bool(TRUE) => ViolationsOf("service_health") = {}

\* healthy=false against an empty thresholds map
C15_Witness ==
    /\ EvaluatedOk
    /\ thresholds = EmptyThresholds
    /\ HealthyField = Bool(FALSE)
    /\ Len(evaluated.out.violations) = 1
    /\ evaluated.out.violations[1].Metric = "service_health"


(***************************************************************************)
(* Claims about single evaluations by a monitor (SpecMonitorScenarios)     *)
(***************************************************************************)
\* monitor i completes an evaluation in this step
Evaluates(i) == mon[i].pc = "check" /\ mon'[i].evals = mon[i].evals + 1

\* both ConfigMaps are readable, but a required section or the thresholds
\* map is not there
RequiredMissing ==
    /\ snapshot.status = "ok"
    /\ thresholds.status = "ok"
    /\ \/ \E sec \in SectionKeys : Section(snapshot.parsed, sec).nil
       \/ Section(thresholds.parsed, "thresholds").nil

\* C16: an evaluation made while a required section or the thresholds map is
\* missing reports no violation and calls no abort, even though the sections
\* that are there are in violation, and the monitor goes on to wait for the
\* next signal.
C16_MissingSectionSkips ==
    [][\A i \in DOMAIN mon :
          (Evaluates(i) /\ RequiredMissing) =>
              /\ mon'[i].pc = "select"
              /\ mon'[i].reported = mon[i].reported
              /\ mon'[i].aborts = mon[i].aborts
              /\ abortLog' = abortLog]_vars

\* a monitor has evaluated the only snapshot there has been, which lacks
\* pod_metrics, and is waiting
C16_Witness ==
    /\ snapshot = SnapMissingPods
    /\ thresholds = StandardThresholds
    /\ sent = 0
    /\ abortLog = << >>
    /\ \E i \in DOMAIN mon : mon[i].evals = 1 /\ mon[i].pc = "select"


StrViolations1 ==
    <<"m","u","l","t","i","p","l","e","_","t","h","r","e","s","h","o","l","d","_",
      "v","i","o","l","a","t","i","o","n","s","_","1">>

CrashingPodsViolation ==
    [Metric |-> "crashing_pods_percent", Current |-> 40, Threshold |-> 10,
     Reason |-> "crashing_pods_threshold_exceeded"]

\* C19: an evaluation of the snapshot with pod_metrics.crashing_percent = 40
\* and nothing else in violation, against crashing_pods_percent = 10, finds
\* exactly one violation, with Reason crashing_pods_threshold_exceeded, and
\* calls abort with the reason multiple_threshold_violations_1.
C19_ScenarioCrashingPods ==
    [][\A i \in DOMAIN mon :
          (Evaluates(i) /\ snapshot = SnapCrashing /\ thresholds = StandardThresholds) =>
              /\ mon'[i].reported = <<CrashingPodsViolation>>
              /\ mon'[i].pc = "abort"
              /\ mon'[i].aborts = mon[i].aborts + 1
              /\ Len(abortLog') = Len(abortLog) + 1
              /\ abortLog'[Len(abortLog')].by = i
              /\ abortLog'[Len(abortLog')].violations = <<CrashingPodsViolation>>
              /\ abortLog'[Len(abortLog')].reason = StrViolations1]_vars

\* the abort call made on the crashing-pods snapshot the controller started with
C19_Witness ==
    /\ snapshot = SnapCrashing
    /\ thresholds = StandardThresholds
    /\ sent = 0
    /\ Len(abortLog) = 1
    /\ abortLog[1].reason = StrViolations1
    /\ abortLog[1].violations = <<CrashingPodsViolation>>


(***************************************************************************)
(* Claims about the status oracle adapter (checked under SpecOracle)       *)
(***************************************************************************)
Answered == oracle.queried /\ ~oracle.err

StatePresent == cluster.Properties.set /\ cluster.Properties.v.ProvisioningState.set

ProvisioningState == cluster.Properties.v.ProvisioningState.v

ActiveLowerCase ==
    { <<"u","p","g","r","a","d","i","n","g">>,
      <<"u","p","d","a","t","i","n","g">>,
      <<"s","c","a","l","i","n","g">>,
      <<"c","r","e","a","t","i","n","g">>,
      <<"d","e","l","e","t","i","n","g">>,
      <<"r","u","n","n","i","n","g">>,
      <<"i","n","p","r","o","g","r","e","s","s">> }

\* C20: the status returned has InProgress=true iff the provisioning state
\* is present and, lower-cased, is one of upgrading, updating, scaling,
\* creating, deleting, running, inprogress; with the state present Status
\* is that state, with it absent Status is "Unknown" and InProgress false.
C20_InProgressClassification ==
    Answered =>
        /\ oracle.state.InProgress <=>
              (StatePresent /\ ToLower(ProvisioningState) \in ActiveLowerCase)
        /\ StatePresent => oracle.state.Status = ProvisioningState
        /\ ~StatePresent => oracle.state.Status = <<"U","n","k","n","o","w","n">>

\* "UPDATING" is in progress
C20_Witness ==
    /\ Answered
    /\ StatePresent
    /\ ProvisioningState = <<"U","P","D","A","T","I","N","G">>
    /\ oracle.state.InProgress
    /\ oracle.state.Status = <<"U","P","D","A","T","I","N","G">>


(***************************************************************************)
(* Claims about the generated record name                                  *)
(***************************************************************************)
\* the characters a generated name must not contain
ForbiddenChars == {UpperChars[k] : k \in DOMAIN UpperChars} \cup {".", "_", " "}

WellFormedName(name) ==
    /\ Len(name) <= NameLimit
    /\ \A j \in DOMAIN name : name[j] \notin ForbiddenChars

\* C21: for every cluster name and every operation type/status string the
\* generated record name is deterministic, entirely lower-case, contains no
\* '.', '_' or space and is at most 63 characters long -- whichever of the
\* two reconcilers generates it.
C21_GeneratedNameWellFormed ==
    /\ generated.n >= 1 =>
          /\ WellFormedName(generated.names.manager)
          /\ WellFormedName(generated.names.polling)
    /\ generated.n >= 2 => generated.names = generated.before

(***************************************************************************)
(* Claims about overlapping Reconcile runs                                 *)
(***************************************************************************)
\* run k saw an operation in progress and found no record under its name
SawInProgressNoRecord(k) ==
    /\ runs[k].pc = "done"
    /\ ~runs[k].orc.err
    /\ runs[k].orc.state.InProgress
    /\ ~runs[k].exists

\* C22: when two Reconcile runs both observe the operation in progress and
\* both find no record under the same generated name, the duplicate create is
\* treated as already satisfied: neither run returns an error and exactly one
\* record of that name exists afterwards.
C22_ConcurrentCreateAbsorbed ==
    \A j, k \in 1..MaxRuns :
        (j # k /\ SawInProgressNoRecord(j) /\ SawInProgressNoRecord(k)
             /\ runs[j].opName = runs[k].opName)
        => /\ runs[j].out.err = "nil"
           /\ runs[k].out.err = "nil"
           /\ Cardinality({cr \in store : cr.name = runs[k].opName}) = 1

(***************************************************************************)
(* Claims about orphan cleanup                                             *)
(***************************************************************************)
\* the last step ran a cleanup: CleanupOrphanedCRs, or a Reconcile run that
\* reached cleanupAllOperationCRs
CleanupRan ==
    /\ last.ran
    /\ last.out.path \in {"orphan-cleanup", "delete", "noop"}

\* the oracle said the operation behind record cr is in progress
StillInProgress(cr, orc) ==
    /\ ~orc.err
    /\ orc.state.InProgress
    /\ cr.labels.cluster = reconciler.ClusterName
    /\ cr.name = generateOperationName(reconciler, orc.state)

\* C23: orphan cleanup deletes only records labelled with this controller's
\* cluster identity whose operation is not in progress: a record of another
\* cluster and a record of an operation still in progress both survive it.
C23_CleanupDeletesOnlyOwnOrphans ==
    CleanupRan =>
        \A cr \in last.pre :
            (cr.labels.cluster # reconciler.ClusterName \/ StillInProgress(cr, last.oracle))
            => cr \in store

(***************************************************************************)
(* Claims about the Operation CR callbacks                                 *)
(***************************************************************************)
\* C24: whatever creations and deletions are observed (a deletion twice, a
\* deletion of a name never seen, a deletion after the monitor has ended
\* itself with an abort), DeleteFunc never blocks and never closes a stop
\* channel twice: no close-of-closed-channel panic, no registered channel is
\* a closed one, and DeleteFunc can run for every name.
C24_DeleteNeverBlocksNorClosesTwice ==
    /\ panicked # "close of closed channel"
    /\ \A n \in DOMAIN operationMonitors : operationMonitors[n] \notin closed
    /\ panicked = NoPanic => \A name \in CRNames : ENABLED DeleteFunc(name)

\* a second deletion of a name whose monitor had ended itself with an abort
C24_Witness ==
    /\ panicked = NoPanic
    /\ lastEvent.h = "DeleteFunc"
    /\ ~lastEvent.known
    /\ \E i \in DOMAIN mon :
          /\ mon[i].name = lastEvent.name
          /\ mon[i].pc = "done"
          /\ mon[i].abortErr # Nil
          /\ mon[i].stop \in closed

\* C25: a monitor is started only in the step that observes a record's
\* creation, and it is the monitor of that record; a stop channel is closed
\* only in the step that observes a record's deletion, and it is the channel
\* registered for that record; no step of the health controller (callbacks,
\* monitors) creates or deletes an Operation CR.
C25_LifecycleFollowsObservations ==
    [][ /\ Len(mon') > Len(mon) =>
              /\ Len(mon') = Len(mon) + 1
              /\ lastEvent' = [h |-> "AddFunc", name |-> mon'[Len(mon')].name,
                               known |-> FALSE]
              /\ closed' = closed
        /\ closed' # closed =>
              /\ lastEvent'.h = "DeleteFunc"
              /\ lastEvent'.known
              /\ lastEvent'.name \in DOMAIN operationMonitors
              /\ closed' = closed \cup {operationMonitors[lastEvent'.name]}
              /\ mon' = mon
        /\ store' = store ]_vars

\* op-a's deletion was observed: its monitor's channel is closed, the channel
\* of op-b's monitor, started after op-b's creation, is open
C25_Witness ==
    /\ lastEvent.h = "DeleteFunc"
    /\ lastEvent.known
    /\ Len(mon) = 2
    /\ \E i, j \in DOMAIN mon :
          /\ mon[i].name = lastEvent.name
          /\ mon[i].stop \in closed
          /\ mon[j].name # lastEvent.name
          /\ mon[j].name \in DOMAIN operationMonitors
          /\ mon[j].stop \notin closed
          /\ mon[j].pc # "done"

(***************************************************************************)
(* Claims about the request handed to Reconcile                            *)
(***************************************************************************)
\* C26: whatever name and namespace the request carries, a Reconcile run
\* that got an oracle answer works on the name generated from that answer in
\* namespace "default": that is the name it looks up, a record it creates
\* has that name and that namespace, and the run's outcome is the one every
\* other request would have had.
C26_RequestIgnored ==
    (last.ran /\ ~last.oracle.err) =>
        LET name == generateOperationName(reconciler, last.oracle.state)
        IN /\ last.out.opName = name
           /\ ~last.faults.get =>
                 (last.out.exists <=>
                    \E cr \in last.pre : cr.name = name /\ cr.namespace = StrDefault)
           /\ \A cr \in store \ last.pre : cr.name = name /\ cr.namespace = StrDefault
           /\ \A req \in Requests :
                 Reconcile(reconciler, last.pre, req, last.oracle, last.faults) = last.out

\* a request for test-ns/test-op created the record under the generated
\* name in "default"
C26_Witness ==
    /\ last.ran
    /\ last.req.Namespace # StrDefault
    /\ last.req.Name # last.out.opName
    /\ last.out.path = "create"
    /\ \E cr \in store \ last.pre :
          /\ cr.name = generateOperationName(reconciler, last.oracle.state)
          /\ cr.namespace = StrDefault

(***************************************************************************)
(* Claims about the update signal and several monitors                     *)
(***************************************************************************)
\* monitor i is blocked in its select, its record not deleted, and an update
\* signal has been delivered
WaitingWithSignal(i) ==
    /\ i \in DOMAIN mon
    /\ panicked = NoPanic
    /\ mon[i].pc = "select"
    /\ ~Cancelled(i)
    /\ metricsUpdated > 0

\* monitor i has woken to re-evaluate (or its record was deleted, or the
\* process has ended)
Reevaluates(i) ==
    /\ i \in DOMAIN mon
    /\ (mon[i].pc = "check" \/ Cancelled(i) \/ panicked # NoPanic)

OwnRecords(st) == {cr \in st : cr.labels.cluster = reconciler.ClusterName}

\* C28: after a sync cycle in which the oracle reported InProgress=false and
\* which ended without error, no Operation Record of this cluster is left,
\* one created under the name of another operation type included.
C28_NoRecordAfterCompletion ==
    (last.ran /\ ~last.oracle.err /\ ~last.oracle.state.InProgress /\ last.out.err = "nil")
        => OwnRecords(store) = {}

(***************************************************************************)
(* Claims about a failing abort and malformed thresholds                   *)
(***************************************************************************)
\* C29: when the abort call fails, with a conflict or any other error, the
\* monitor has returned all the same: it made that one abort call and no
\* other, made no evaluation after the one that led to it, and can neither
\* evaluate nor wake on an update signal again.
C29_FailedAbortStillTerminates ==
    \A i \in DOMAIN mon :
        mon[i].abortErr \in AbortErrors \ {"nil"} =>
            /\ mon[i].pc = "done"
            /\ Cardinality(AbortsBy(i)) = 1
            /\ \A k \in AbortsBy(i) : abortLog[k].evals = mon[i].evals
            /\ ~ENABLED Check(i)
            /\ ~ENABLED SelectUpdate(i)
            /\ ~ENABLED (\E err \in AbortErrors : AbortReturn(i, err))

\* the abort ended in a conflict; an update signal is pending and the
\* monitor's record has not been deleted, yet the monitor has returned
C29_Witness ==
    \E i \in DOMAIN mon :
        /\ mon[i].abortErr = "conflict"
        /\ mon[i].pc = "done"
        /\ mon[i].stop \notin closed
        /\ metricsUpdated = 1
        /\ Cardinality(AbortsBy(i)) = 1
        /\ panicked = NoPanic

\* thresholds.json holds a recognised key whose value is not a number
ThresholdsMalformed ==
    /\ thresholds.status = "ok"
    /\ ~Section(thresholds.parsed, "thresholds").nil
    /\ getThresholdPanics(Section(thresholds.parsed, "thresholds"))

\* C30: with a recognised threshold key whose value is not a number every
\* evaluation is skipped as a validation failure: the process does not
\* panic, no abort call is made, and a monitor that has evaluated is back
\* waiting in its select (or has been told to stop).
C30_MalformedThresholdsSkipped ==
    ThresholdsMalformed =>
        /\ panicked = NoPanic
        /\ abortLog = << >>
        /\ \A i \in DOMAIN mon :
              mon[i].evals >= 1 => (mon[i].pc \in {"check", "select"} \/ Cancelled(i))

(***************************************************************************)
(* The polling loop, the abort call, classification and the collector      *)
(***************************************************************************)
RecordFailures == {"create", "delete"}

LiveLoops == {l \in DOMAIN poll.loops : poll.loops[l].pc # "stopped"}

\* C31: within one poll cycle a failed create or delete is retried, the cycle
\* makes at most MaxRetries = 3 attempts, every attempt before the last one
\* failed (the first success ends the cycle), the cycle ends only on a
\* success or after the third attempt, and after a third failure the loop is
\* still running and waits for the next tick, which starts a new cycle.
C31_RetryBoundedPerCycle ==
    \A l \in LiveLoops :
       LET loop == poll.loops[l]
       IN /\ Len(loop.errs) <= MaxRetries
          /\ loop.attempt <= MaxRetries
          /\ \A k \in 1..(Len(loop.errs) - 1) : loop.errs[k] # "nil"
          /\ loop.pc = "sync" =>
                /\ Len(loop.errs) = loop.attempt - 1
                /\ \A k \in DOMAIN loop.errs : loop.errs[k] # "nil"
          /\ loop.pc = "wait" =>
                /\ Len(loop.errs) = loop.attempt
                /\ loop.errs[Len(loop.errs)] = "nil" \/ Len(loop.errs) = MaxRetries
                /\ (~poll.panic /\ loop.cycle < MaxCycles) => ENABLED Tick(l)

C31_Witness ==
    \E l \in LiveLoops :
       /\ poll.loops[l].pc = "wait"
       /\ Len(poll.loops[l].errs) = MaxRetries
       /\ \A k \in 1..MaxRetries : poll.loops[l].errs[k] \in RecordFailures
       /\ poll.loops[l].cycle < MaxCycles
       /\ ~poll.panic

\* C32: in a poll cycle an attempt whose oracle query failed is the last
\* attempt of that cycle: no attempt (each one starts with an oracle query,
\* and may create or delete a record) follows it before the next tick.
C32_OracleFailureEndsCycle ==
    \A l \in LiveLoops :
       \A k \in DOMAIN poll.loops[l].errs :
          poll.loops[l].errs[k] = "oracle" => k = Len(poll.loops[l].errs)

\* C37: no sequence of Start and Stop calls panics (Stop never closes a
\* stop channel that is closed already), and a Start that returns "already
\* running" has spawned no loop.
C37_StartStopNeverPanics ==
    /\ ~poll.panic
    /\ poll.lastCall.err = "already running" => ~poll.lastCall.spawned

TooLate == "operation completed before abort could take effect"

\* C33: the abort call returns the "completed before abort could take
\* effect" error exactly when the abort request was answered with 409
\* Conflict, so that this error tells a conflict from every other abort
\* failure; it then has sent one abort request and has not polled.
C33_ConflictDistinguishable ==
    azure.n > 0 =>
       /\ (azure.out.err = TooLate) <=> (azure.begin.status = 409)
       /\ azure.begin.status = 409 => (~azure.out.polled /\ azure.out.begins = 1)

\* C34: a monitor whose cancellation is signalled while it is inside the
\* abort call still terminates, also when Azure never answers that call
\* (a timeout ends the call).
C34_HungCallCannotStallMonitor ==
    \A i \in 1..MaxMonitors :
       (Cancelled(i) /\ mon[i].pc = "abort") ~> Returned(i)

\* the cluster shows a version change: the version asked for differs from
\* the version it runs
VersionChange(c) ==
    /\ c.Properties.v.KubernetesVersion.set
    /\ c.Properties.v.CurrentKubernetesVersion.set
    /\ c.Properties.v.KubernetesVersion.v # c.Properties.v.CurrentKubernetesVersion.v

ActivePool(c) ==
    /\ c.Properties.v.AgentPoolProfiles.set
    /\ \E j \in DOMAIN c.Properties.v.AgentPoolProfiles.v :
          /\ c.Properties.v.AgentPoolProfiles.v[j].set
          /\ isOperationInProgress(c.Properties.v.AgentPoolProfiles.v[j].v)

\* C35: the type reported for a cluster is the upgrade type when the cluster
\* shows a version change, else node-pool-scale when a node pool is in an
\* active state, else addon-update when add-ons are present, else the
\* generic update; a version that is set but unchanged does not make it an
\* upgrade.
C35_TypePriority ==
    (oracle.queried /\ ~oracle.err) =>
       oracle.state.Type =
          IF VersionChange(cluster) THEN StrClusterUpgrade
          ELSE IF ActivePool(cluster) THEN StrNodePoolScale
          ELSE IF cluster.Properties.v.AddonProfiles.set THEN StrAddonUpdate
          ELSE StrClusterUpdate

\* C36: a monitor that is waiting in its select while its stop channel is
\* closed does not go on to an evaluation (and so to an abort call), also
\* when an update signal is pending: its next step is to return.
C36_CancelledMonitorStartsNothing ==
    [][\A i \in DOMAIN mon :
          (mon[i].pc = "select" /\ mon[i].stop \in closed) =>
             mon'[i].pc \in {"select", "done"}]_vars

\* C38: a Reconcile run whose existence check failed with an error other
\* than not-found leaves the record store as it was and returns an error.
C38_FailedCheckTouchesNothing ==
    (last.ran /\ ~last.oracle.err /\ last.faults.get) =>
       /\ store = last.pre
       /\ last.out.err # "nil"

\* the history stored in the metrics ConfigMap
StoredHistory == UnmarshalHistory(metricsCM.data.history.v).v

\* C39: whenever the collector was the last to write the metrics ConfigMap,
\* metrics_history.json holds at most 100 entries, they are the most recent
\* stored collections in the order they were collected (all of them, up to
\* 100, when nobody else edited the history), current_metrics.json is the
\* last of them and total_collections is the number of entries.
C39_HistoryBounded ==
    metricsCM.writer = "collector" =>
       /\ metricsCM.data.history.set
       /\ ~UnmarshalHistory(metricsCM.data.history.v).err
       /\ Len(StoredHistory) \in 1..MaxHistoryEntries
       /\ Len(StoredHistory) <= metricsCM.stored
       /\ \A k \in DOMAIN StoredHistory :
             StoredHistory[k] =
                MetricsData(metricsCM.stored - Len(StoredHistory) + k - 1, TRUE)
       /\ metricsCM.data.current = Some(MarshalMetrics(StoredHistory[Len(StoredHistory)]))
       /\ metricsCM.data.total = Some(Itoa(Len(StoredHistory)))
       /\ metricsCM.edits = 0 =>
             Len(StoredHistory) =
                IF metricsCM.stored > MaxHistoryEntries THEN MaxHistoryEntries
                ELSE metricsCM.stored

\* more than 100 collections were stored: the oldest ones are gone
C39_Witness ==
    /\ metricsCM.writer = "collector"
    /\ metricsCM.stored = MaxHistoryEntries + 2
    /\ Len(StoredHistory) = MaxHistoryEntries
    /\ StoredHistory[1].Timestamp = 3
    /\ metricsCM.data.total = Some(<<"1","0","0">>)

\* the delay, in seconds, after which an answer counts as too late
HealthDeadline == 5

\* C40: CollectServiceHealth reports Healthy=true exactly when no health
\* URL is configured (then with the note "No health URL configured") or
\* the endpoint answers within 5 seconds with a status code in 200..399;
\* a refused request, a status of 400 or above and an answer that takes
\* longer than 5 seconds are reported Healthy=false.
C40_ServiceHealthVerdict ==
    health.n > 0 =>
       /\ health.out.Healthy <=>
             \/ health.url = << >>
             \/ /\ ~health.endpoint.refused
                /\ health.endpoint.delay <= HealthDeadline
                /\ health.endpoint.status \in 200..399
       /\ health.url = << >> => health.out.ErrorMessage = StrNoHealthURL
====
